---- MODULE Spec2Model ----
(***************************************************************************)
(* A state-machine model of the cycle-stepped 6502 core of 6502-rs: the    *)
(* Cpu structure, its step() and reset() operations, the micro-op library, *)
(* the instruction-variant table, the ALU and the flag register, over a    *)
(* bus of RAM devices.                                                     *)
(***************************************************************************)
EXTENDS Integers, Sequences, FiniteSets, TLC

VARIABLES
    cpu,      \* the Cpu structure (cpu.rs:15-34)
    last,     \* observer: what the most recent call did and returned
    probe     \* observer: bookkeeping of the instruction in progress

vars == <<cpu, last, probe>>

----------------------------------------------------------------------------
(* Fixed-width integer helpers. *)

U8(v) == v % 256

U16(v) == v % 65536

Bit(v, i) == (v \div (2 ^ i)) % 2

HighByte(v) == (v \div 256) % 256

LowByte(v) == v % 256

\* u8 as i8 as i16 (alu.rs:67)
SignExtend8(o) == IF o >= 128 THEN o - 256 ELSE o

BitAnd(a, b) ==
    Bit(a, 0) * Bit(b, 0) + 2 * Bit(a, 1) * Bit(b, 1)
    + 4 * Bit(a, 2) * Bit(b, 2) + 8 * Bit(a, 3) * Bit(b, 3)
    + 16 * Bit(a, 4) * Bit(b, 4) + 32 * Bit(a, 5) * Bit(b, 5)
    + 64 * Bit(a, 6) * Bit(b, 6) + 128 * Bit(a, 7) * Bit(b, 7)

BitOr(a, b) == a + b - BitAnd(a, b)

BitXor(a, b) == a + b - 2 * BitAnd(a, b)

\* `x |= (hi as u16) << 8` on a 16-bit word
OrHigh(word, hi) ==
    (word % 256) + 256 * BitOr(HighByte(word), hi)

\* The u64 cycle counter, kept as four 16-bit limbs (least significant first).
U64Zero == <<0, 0, 0, 0>>

\* u64::wrapping_add(1): the carry runs through the limbs that are full
U64WrappingInc(w) ==
    [i \in 1..4 |->
        IF \A j \in 1..(i - 1) : w[j] = 65535
        THEN (w[i] + 1) % 65536
        ELSE w[i]]

----------------------------------------------------------------------------
(* Flags (flags.rs). *)

FlagsDefault ==
    [carry |-> FALSE, zero |-> FALSE, interrupt_disable |-> TRUE,
     decimal_mode |-> FALSE, break_command |-> FALSE, unused |-> TRUE,
     overflow |-> FALSE, negative |-> FALSE]

\* into with the places of Overflow and Negative exchanged
FlagsIntoU8_high_bits_exchanged(f) ==
    32
    + (IF f.carry THEN 1 ELSE 0)
    + (IF f.zero THEN 2 ELSE 0)
    + (IF f.interrupt_disable THEN 4 ELSE 0)
    + (IF f.decimal_mode THEN 8 ELSE 0)
    + (IF f.break_command THEN 16 ELSE 0)
    + (IF f.overflow THEN 128 ELSE 0)
    + (IF f.negative THEN 64 ELSE 0)

\* impl Into<u8> for Flags
FlagsIntoU8(f) ==
    32
    + (IF f.carry THEN 1 ELSE 0)
    + (IF f.zero THEN 2 ELSE 0)
    + (IF f.interrupt_disable THEN 4 ELSE 0)
    + (IF f.decimal_mode THEN 8 ELSE 0)
    + (IF f.break_command THEN 16 ELSE 0)
    + (IF f.overflow THEN 64 ELSE 0)
    + (IF f.negative THEN 128 ELSE 0)

\* impl TryFrom<u8> for Flags: the success test
FlagsTryFromOk(byte) == Bit(byte, 5) = 1

\* try_from leaving the Break field at its default
FlagsTryFrom_break_dropped(byte) ==
    [carry |-> Bit(byte, 0) = 1, zero |-> Bit(byte, 1) = 1,
     interrupt_disable |-> Bit(byte, 2) = 1,
     decimal_mode |-> Bit(byte, 3) = 1,
     break_command |-> FALSE, unused |-> TRUE,
     overflow |-> Bit(byte, 6) = 1, negative |-> Bit(byte, 7) = 1]

\* impl TryFrom<u8> for Flags: the decoded value
FlagsTryFrom(byte) ==
    [carry |-> Bit(byte, 0) = 1, zero |-> Bit(byte, 1) = 1,
     interrupt_disable |-> Bit(byte, 2) = 1,
     decimal_mode |-> Bit(byte, 3) = 1,
     break_command |-> Bit(byte, 4) = 1, unused |-> TRUE,
     overflow |-> Bit(byte, 6) = 1, negative |-> Bit(byte, 7) = 1]

----------------------------------------------------------------------------
(* Registers (registers.rs). *)

RegistersDefault ==
    [accumulator |-> 0, x |-> 0, y |-> 0,
     program_counter |-> 65532, stack_pointer |-> 253]

----------------------------------------------------------------------------
(* ALU (alu.rs).  Each operator returns the result byte and the flags.    *)

ZeroNegative(f, v) == [f EXCEPT !.zero = (v = 0), !.negative = (v >= 128)]

\* add taking Overflow from the signs of the operand and of the result only
alu_add_overflow_without_accumulator(a, operand, flags) ==
    LET carry_in == IF flags.carry THEN 1 ELSE 0
        result == a + operand + carry_in
        low_adjust ==
            IF (a % 16) + (operand % 16) + carry_in > 9 THEN 6 ELSE 0
        high_adjust == IF result > 153 THEN 96 ELSE 0
        result_byte ==
            IF flags.decimal_mode
            THEN U8(result + low_adjust + high_adjust)
            ELSE U8(result)
        carry ==
            IF flags.decimal_mode THEN result > 153 ELSE result > 255
        a_sign == a >= 128
        op_sign == operand >= 128
        res_sign == result_byte >= 128
    IN [value |-> result_byte,
        flags |-> [flags EXCEPT
            !.carry = carry,
            !.overflow = (op_sign # res_sign),
            !.zero = (result_byte = 0),
            !.negative = res_sign]]

\* add keeping the binary Carry in decimal mode
alu_add_decimal_binary_carry(a, operand, flags) ==
    LET carry_in == IF flags.carry THEN 1 ELSE 0
        result == a + operand + carry_in
        low_adjust ==
            IF (a % 16) + (operand % 16) + carry_in > 9 THEN 6 ELSE 0
        high_adjust == IF result > 153 THEN 96 ELSE 0
        result_byte ==
            IF flags.decimal_mode
            THEN U8(result + low_adjust + high_adjust)
            ELSE U8(result)
        carry ==
            result > 255
        a_sign == a >= 128
        op_sign == operand >= 128
        res_sign == result_byte >= 128
    IN [value |-> result_byte,
        flags |-> [flags EXCEPT
            !.carry = carry,
            !.overflow = (a_sign = op_sign) /\ (a_sign # res_sign),
            !.zero = (result_byte = 0),
            !.negative = res_sign]]

alu_add(a, operand, flags) ==
    LET carry_in == IF flags.carry THEN 1 ELSE 0
        result == a + operand + carry_in
        low_adjust ==
            IF (a % 16) + (operand % 16) + carry_in > 9 THEN 6 ELSE 0
        high_adjust == IF result > 153 THEN 96 ELSE 0
        result_byte ==
            IF flags.decimal_mode
            THEN U8(result + low_adjust + high_adjust)
            ELSE U8(result)
        carry ==
            IF flags.decimal_mode THEN result > 153 ELSE result > 255
        a_sign == a >= 128
        op_sign == operand >= 128
        res_sign == result_byte >= 128
    IN [value |-> result_byte,
        flags |-> [flags EXCEPT
            !.carry = carry,
            !.overflow = (a_sign = op_sign) /\ (a_sign # res_sign),
            !.zero = (result_byte = 0),
            !.negative = res_sign]]

alu_add_pc_with_signed_offset(pc, offset) ==
    U16(pc + 65536 + SignExtend8(offset))

\* sub that never borrows on the way in
alu_sub_carry_in_ignored(a, operand, flags) ==
    LET operand_complement == 255 - operand
        carry_in == 1
        result == a + operand_complement + carry_in
        bin_carry == result > 255
        c == IF bin_carry THEN 1 ELSE 0
        al0 == (a % 16) - (operand % 16) - (1 - c)
        al == IF al0 < 0 THEN al0 + 10 ELSE al0
        ah0 == (IF al0 < 0 THEN (a \div 16) - 1 ELSE (a \div 16))
               - (operand \div 16)
        ah == IF ah0 < 0 THEN ah0 + 10 ELSE ah0
        \* ((ah << 4) | al) as u8 on i16 values (two's complement)
        dec_byte == BitOr(U8(16 * ah), U8(al))
        result_byte == IF flags.decimal_mode THEN dec_byte ELSE U8(result)
        carry == IF flags.decimal_mode THEN ~(ah0 < 0) ELSE bin_carry
        a_sign == a >= 128
        op_sign == operand >= 128
        res_sign == result_byte >= 128
    IN [value |-> result_byte,
        flags |-> [flags EXCEPT
            !.carry = carry,
            !.overflow = (a_sign # op_sign) /\ (a_sign # res_sign),
            !.zero = (result_byte = 0),
            !.negative = res_sign]]

alu_sub(a, operand, flags) ==
    LET operand_complement == 255 - operand
        carry_in == IF flags.carry THEN 1 ELSE 0
        result == a + operand_complement + carry_in
        bin_carry == result > 255
        c == IF bin_carry THEN 1 ELSE 0
        al0 == (a % 16) - (operand % 16) - (1 - c)
        al == IF al0 < 0 THEN al0 + 10 ELSE al0
        ah0 == (IF al0 < 0 THEN (a \div 16) - 1 ELSE (a \div 16))
               - (operand \div 16)
        ah == IF ah0 < 0 THEN ah0 + 10 ELSE ah0
        \* ((ah << 4) | al) as u8 on i16 values (two's complement)
        dec_byte == BitOr(U8(16 * ah), U8(al))
        result_byte == IF flags.decimal_mode THEN dec_byte ELSE U8(result)
        carry == IF flags.decimal_mode THEN ~(ah0 < 0) ELSE bin_carry
        a_sign == a >= 128
        op_sign == operand >= 128
        res_sign == result_byte >= 128
    IN [value |-> result_byte,
        flags |-> [flags EXCEPT
            !.carry = carry,
            !.overflow = (a_sign # op_sign) /\ (a_sign # res_sign),
            !.zero = (result_byte = 0),
            !.negative = res_sign]]

alu_and(a, operand, flags) ==
    LET result == BitAnd(a, operand)
    IN [value |-> result, flags |-> ZeroNegative(flags, result)]

alu_ora(a, operand, flags) ==
    LET result == BitOr(a, operand)
    IN [value |-> result, flags |-> ZeroNegative(flags, result)]

alu_eor(a, operand, flags) ==
    LET result == BitXor(a, operand)
    IN [value |-> result, flags |-> ZeroNegative(flags, result)]

alu_asl(value, flags) ==
    LET result == U8(value * 2)
    IN [value |-> result,
        flags |-> [ZeroNegative(flags, result) EXCEPT !.carry = value >= 128]]

alu_lsr(value, flags) ==
    LET result == value \div 2
    IN [value |-> result,
        flags |-> [ZeroNegative(flags, result)
                       EXCEPT !.carry = (value % 2 = 1)]]

alu_rol(value, flags) ==
    LET result == U8(value * 2) + (IF flags.carry THEN 1 ELSE 0)
    IN [value |-> result,
        flags |-> [ZeroNegative(flags, result) EXCEPT !.carry = value >= 128]]

alu_ror(value, flags) ==
    LET result == (value \div 2) + (IF flags.carry THEN 128 ELSE 0)
    IN [value |-> result,
        flags |-> [ZeroNegative(flags, result)
                       EXCEPT !.carry = (value % 2 = 1)]]

alu_cmp(a, operand, flags) ==
    LET result == U8(a + 256 - operand)
    IN [ZeroNegative(flags, result) EXCEPT !.carry = (a >= operand)]

alu_bit(a, operand, flags) ==
    [flags EXCEPT !.zero = (BitAnd(a, operand) = 0),
                  !.overflow = (Bit(operand, 6) = 1),
                  !.negative = (Bit(operand, 7) = 1)]

----------------------------------------------------------------------------
(* Bus (bus/src/lib.rs), RAM (ram/src/lib.rs) and ROM (rom/src/lib.rs).    *)
(* bus.devices is the registration list; bus.memory holds the bytes that   *)
(* the program put there or were written; every other cell holds the data  *)
(* pattern Background(address), imported into the devices with the program; *)
(* bus.ops records the bus operations issued during the current call.      *)

\* Ram::import of a pattern that tells the cells apart
Background(address) == U8(LowByte(address) + HighByte(address))

MemoryAt(bus, address) ==
    IF address \in DOMAIN bus.memory THEN bus.memory[address]
    ELSE Background(address)

\* the first registered device whose range holds the address, 0 if none
DeviceFor(bus, address) ==
    LET hits == {i \in 1..Len(bus.devices) :
                    address >= bus.devices[i].start
                    /\ address <= bus.devices[i].end}
    IN IF hits = {} THEN 0
       ELSE CHOOSE i \in hits : \A j \in hits : i <= j

\* Ram::read / Rom::read: the offset test
DeviceInRange(dev, address) ==
    U16(address + 65536 - dev.start_address) < dev.size

\* BusController::read
BusRead(bus, address) ==
    LET i == DeviceFor(bus, address)
        logged == [bus EXCEPT !.ops = Append(@, <<"read", address>>)]
    IN IF i = 0
       THEN [ok |-> FALSE, value |-> 0, bus |-> logged,
             error |-> "AddressOutOfRange"]
       ELSE IF ~DeviceInRange(bus.devices[i], address)
            THEN [ok |-> FALSE, value |-> 0, bus |-> logged,
                  error |-> "AddressOutOfRange"]
       ELSE [ok |-> TRUE, value |-> MemoryAt(bus, address), bus |-> logged,
             error |-> ""]

\* BusController::write
BusWrite(bus, address, data) ==
    LET i == DeviceFor(bus, address)
        logged == [bus EXCEPT !.ops = Append(@, <<"write", address>>)]
    IN IF i = 0
       THEN [ok |-> FALSE, bus |-> logged, error |-> "AddressOutOfRange"]
       ELSE IF bus.devices[i].kind = "rom"
            THEN [ok |-> FALSE, bus |-> logged, error |-> "ReadOnly"]
       ELSE IF ~DeviceInRange(bus.devices[i], address)
            THEN [ok |-> FALSE, bus |-> logged, error |-> "AddressOutOfRange"]
       ELSE [ok |-> TRUE, error |-> "",
             bus |-> [logged EXCEPT !.memory =
                 [x \in DOMAIN bus.memory \cup {address} |->
                     IF x = address THEN data ELSE bus.memory[x]]]]

\* BusController::register_device, of a RAM as large as the range
register_device(bus, start, end) ==
    IF \E i \in 1..Len(bus.devices) :
          \/ start >= bus.devices[i].start /\ start <= bus.devices[i].end
          \/ end >= bus.devices[i].start /\ end <= bus.devices[i].end
    THEN [bus |-> bus, result |-> "Other"]
    ELSE [bus |-> [bus EXCEPT !.devices =
                      Append(@, [start |-> start, end |-> end, kind |-> "ram",
                                 start_address |-> start,
                                 size |-> end - start + 1])],
          result |-> "Ok"]

----------------------------------------------------------------------------
(* Cpu helper methods (cpu.rs). *)

PROGRAM_COUNTER_RESET_VECTOR == 65532

\* cpu.bus.read(address).map_err(CpuError::BusError)
read(c, address) ==
    LET r == BusRead(c.bus, address)
    IN [ok |-> r.ok, value |-> r.value, cpu |-> [c EXCEPT !.bus = r.bus]]

\* cpu.bus.write(address, data).map_err(CpuError::BusError)
write(c, address, data) ==
    LET r == BusWrite(c.bus, address, data)
    IN [ok |-> r.ok, cpu |-> [c EXCEPT !.bus = r.bus]]

increment_pc(c) ==
    [c EXCEPT !.registers.program_counter = U16(@ + 1)]

fetch_operand(c) ==
    LET r == read(c, c.registers.program_counter)
    IN IF r.ok THEN [ok |-> TRUE, value |-> r.value, cpu |-> increment_pc(r.cpu)]
       ELSE r

push_stack_data(c, value) ==
    write(c, 256 + c.registers.stack_pointer, value)

push_stack_ptr(c) ==
    [c EXCEPT !.registers.stack_pointer = U8(@ + 255)]

pop_stack_ptr(c) ==
    [c EXCEPT !.registers.stack_pointer = U8(@ + 1)]

\* pop_stack_data carrying into page 2 when the pointer has wrapped to 0x00
pop_stack_data_carrying(c) ==
    read(c, IF c.registers.stack_pointer = 0 THEN 512
            ELSE 256 + c.registers.stack_pointer)

pop_stack_data(c) ==
    read(c, 256 + c.registers.stack_pointer)

update_zero_negative_flags(c, value) ==
    [c EXCEPT !.flags = ZeroNegative(@, value)]

determine_page_cross_penalty(start_address, end_address) ==
    HighByte(start_address) # HighByte(end_address)

----------------------------------------------------------------------------
(* Micro-op outcomes (microcode/mod.rs: OperationResult, and the error     *)
(* kinds of errors.rs that a micro-op can return).                         *)

Continue(c) == [cpu |-> c, result |-> "Continue", cycles |-> 0]

PageBoundaryPenalty(c, n) ==
    [cpu |-> c, result |-> "PageBoundaryPenalty", cycles |-> n]

Break(c) == [cpu |-> c, result |-> "Break", cycles |-> 0]

Fail(c, kind) == [cpu |-> c, result |-> kind, cycles |-> 0]

----------------------------------------------------------------------------
(* Common micro-ops (microcode/common.rs). *)

common_push_stack_pointer(c) == Continue(push_stack_ptr(c))

\* pop_stack_pointer moving the stack pointer down, as a push does
common_pop_stack_pointer_down(c) == Continue(push_stack_ptr(c))

common_pop_stack_pointer(c) == Continue(pop_stack_ptr(c))

common_pop_stack_to_temp_data(c) ==
    LET r == pop_stack_data(c)
    IN IF ~r.ok THEN Fail(r.cpu, "BusError")
       ELSE Continue([r.cpu EXCEPT !.temp_data = r.value])

\* operand_into_temp_address_low replacing the low byte only
common_operand_into_temp_address_low_keeping_high(c) ==
    LET r == fetch_operand(c)
    IN IF ~r.ok THEN Fail(r.cpu, "BusError")
       ELSE Continue([r.cpu EXCEPT
                !.temp_address = 256 * HighByte(@) + r.value])

common_operand_into_temp_address_low(c) ==
    LET r == fetch_operand(c)
    IN IF ~r.ok THEN Fail(r.cpu, "BusError")
       ELSE Continue([r.cpu EXCEPT !.temp_address = r.value])

common_operand_into_temp_address_high(c) ==
    LET r == fetch_operand(c)
    IN IF ~r.ok THEN Fail(r.cpu, "BusError")
       ELSE Continue([r.cpu EXCEPT !.temp_address = OrHigh(@, r.value)])

\* temp_address_add_x_register charging a crossed page
common_temp_address_add_x_register_charging(c) ==
    LET d == [c EXCEPT !.temp_address = U16(@ + c.registers.x)]
    IN IF determine_page_cross_penalty(c.temp_address, d.temp_address)
       THEN PageBoundaryPenalty(d, 1)
       ELSE Continue(d)

common_temp_address_add_x_register(c) ==
    Continue([c EXCEPT !.temp_address = U16(@ + c.registers.x)])

common_temp_address_add_x_register_zero_page(c) ==
    Continue([c EXCEPT !.temp_address = U16(@ + c.registers.x) % 256])

common_temp_address_add_x_page_boundary_check(c) ==
    LET d == [c EXCEPT !.temp_address = U16(@ + c.registers.x)]
    IN IF determine_page_cross_penalty(d.temp_address, d.temp_address)
       THEN PageBoundaryPenalty(d, 1)
       ELSE Continue(d)

common_temp_address_add_y_register(c) ==
    Continue([c EXCEPT !.temp_address = U16(@ + c.registers.y)])

common_temp_address_add_y_register_zero_page(c) ==
    Continue([c EXCEPT !.temp_address = U16(@ + c.registers.y) % 256])

common_temp_address_add_y_page_boundary_check(c) ==
    LET d == [c EXCEPT !.temp_address = U16(@ + c.registers.y)]
    IN IF determine_page_cross_penalty(d.temp_address, d.temp_address)
       THEN PageBoundaryPenalty(d, 1)
       ELSE Continue(d)

common_temp_address_data_into_temp_data(c) ==
    LET r == read(c, c.temp_address)
    IN IF ~r.ok THEN Fail(r.cpu, "BusError")
       ELSE Continue([r.cpu EXCEPT !.temp_data = r.value])

common_temp_address_inc_data_as_temp_address_high_add_y_page_boundary_check(c) ==
    LET r == read(c, U16(c.temp_address + 1) % 256)
        base_address == c.temp_data + 256 * r.value
        target == U16(base_address + c.registers.y)
        d == [r.cpu EXCEPT !.temp_address = target]
    IN IF ~r.ok THEN Fail(r.cpu, "BusError")
       ELSE IF determine_page_cross_penalty(base_address, d.temp_address)
            THEN PageBoundaryPenalty(d, 1)
       ELSE Continue(d)

common_temp_data_into_temp_address(c) ==
    LET w == write(c, c.temp_address, c.temp_data)
    IN IF ~w.ok THEN Fail(w.cpu, "BusError") ELSE Continue(w.cpu)

common_temp_data_low_and_temp_address_inc_high_into_temp_address(c) ==
    LET r == read(c, U16(c.temp_address + 1))
    IN IF ~r.ok THEN Fail(r.cpu, "BusError")
       ELSE Continue([r.cpu EXCEPT !.temp_address = c.temp_data + 256 * r.value])

common_none(c) == Continue(c)

----------------------------------------------------------------------------
(* Loads (microcode/lda.rs, ldx.rs, ldy.rs). *)

lda_operand_into_accumulator(c) ==
    LET r == fetch_operand(c)
    IN IF ~r.ok THEN Fail(r.cpu, "BusError")
       ELSE Continue(update_zero_negative_flags(
                [r.cpu EXCEPT !.temp_data = r.value,
                              !.registers.accumulator = r.value], r.value))

lda_temp_address_data_into_accumulator(c) ==
    LET r == read(c, c.temp_address)
    IN IF ~r.ok THEN Fail(r.cpu, "BusError")
       ELSE Continue(update_zero_negative_flags(
                [r.cpu EXCEPT !.temp_data = r.value,
                              !.registers.accumulator = r.value], r.value))

lda_operand_into_temp_address_high_add_x_page_boundary_check(c) ==
    LET r == fetch_operand(c)
        d == [r.cpu EXCEPT !.temp_address = OrHigh(@, r.value)]
        target_address == U16(d.temp_address + d.registers.x)
    IN IF ~r.ok THEN Fail(r.cpu, "BusError")
       ELSE IF determine_page_cross_penalty(d.temp_address, target_address)
            THEN PageBoundaryPenalty(d, 1)
       ELSE Continue(d)

lda_operand_into_temp_address_high_add_y_page_boundary_check(c) ==
    LET r == fetch_operand(c)
        d == [r.cpu EXCEPT !.temp_address = OrHigh(@, r.value)]
        target_address == U16(d.temp_address + d.registers.y)
    IN IF ~r.ok THEN Fail(r.cpu, "BusError")
       ELSE IF determine_page_cross_penalty(d.temp_address, target_address)
            THEN PageBoundaryPenalty(d, 1)
       ELSE Continue(d)

lda_temp_address_inc_data_as_temp_address_high_page_boundary_check(c) ==
    LET r == read(c, U16(c.temp_address + 1) % 256)
        d == [r.cpu EXCEPT !.temp_address = c.temp_data + 256 * r.value]
        target_address == U16(d.temp_address + d.registers.y)
    IN IF ~r.ok THEN Fail(r.cpu, "BusError")
       ELSE IF determine_page_cross_penalty(d.temp_address, target_address)
            THEN PageBoundaryPenalty(d, 1)
       ELSE Continue(d)

lda_temp_address_add_x_data_into_accumulator(c) ==
    LET d == [c EXCEPT !.temp_address = U16(@ + c.registers.x)]
        r == read(d, d.temp_address)
    IN IF ~r.ok THEN Fail(r.cpu, "BusError")
       ELSE Continue(update_zero_negative_flags(
                [r.cpu EXCEPT !.temp_data = r.value,
                              !.registers.accumulator = r.value], r.value))

lda_temp_address_add_y_data_into_accumulator(c) ==
    LET d == [c EXCEPT !.temp_address = U16(@ + c.registers.y)]
        r == read(d, d.temp_address)
    IN IF ~r.ok THEN Fail(r.cpu, "BusError")
       ELSE Continue(update_zero_negative_flags(
                [r.cpu EXCEPT !.temp_data = r.value,
                              !.registers.accumulator = r.value], r.value))

ldx_operand_into_x_register(c) ==
    LET r == fetch_operand(c)
    IN IF ~r.ok THEN Fail(r.cpu, "BusError")
       ELSE Continue(update_zero_negative_flags(
                [r.cpu EXCEPT !.temp_data = r.value,
                              !.registers.x = r.value], r.value))

ldx_temp_address_data_into_x_register(c) ==
    LET r == read(c, c.temp_address)
    IN IF ~r.ok THEN Fail(r.cpu, "BusError")
       ELSE Continue(update_zero_negative_flags(
                [r.cpu EXCEPT !.temp_data = r.value,
                              !.registers.x = r.value], r.value))

ldx_operand_into_temp_address_high_add_y_page_boundary_check(c) ==
    LET r == fetch_operand(c)
        d == [r.cpu EXCEPT !.temp_address = OrHigh(@, r.value)]
        target_address == U16(d.temp_address + d.registers.y)
    IN IF ~r.ok THEN Fail(r.cpu, "BusError")
       ELSE IF determine_page_cross_penalty(d.temp_address, target_address)
            THEN PageBoundaryPenalty(d, 1)
       ELSE Continue(d)

ldx_temp_address_add_y_data_into_accumulator(c) ==
    LET d == [c EXCEPT !.temp_address = U16(@ + c.registers.y)]
        r == read(d, d.temp_address)
    IN IF ~r.ok THEN Fail(r.cpu, "BusError")
       ELSE Continue(update_zero_negative_flags(
                [r.cpu EXCEPT !.temp_data = r.value,
                              !.registers.accumulator = r.value], r.value))

ldy_operand_into_y_register(c) ==
    LET r == fetch_operand(c)
    IN IF ~r.ok THEN Fail(r.cpu, "BusError")
       ELSE Continue(update_zero_negative_flags(
                [r.cpu EXCEPT !.temp_data = r.value,
                              !.registers.y = r.value], r.value))

ldy_temp_address_data_into_y_register(c) ==
    LET r == read(c, c.temp_address)
    IN IF ~r.ok THEN Fail(r.cpu, "BusError")
       ELSE Continue(update_zero_negative_flags(
                [r.cpu EXCEPT !.temp_data = r.value,
                              !.registers.y = r.value], r.value))

ldy_operand_into_temp_address_high_add_x_page_boundary_check(c) ==
    LET r == fetch_operand(c)
        d == [r.cpu EXCEPT !.temp_address = OrHigh(@, r.value)]
        target_address == U16(d.temp_address + d.registers.x)
    IN IF ~r.ok THEN Fail(r.cpu, "BusError")
       ELSE IF determine_page_cross_penalty(d.temp_address, target_address)
            THEN PageBoundaryPenalty(d, 1)
       ELSE Continue(d)

ldy_temp_address_add_x_data_into_accumulator(c) ==
    LET d == [c EXCEPT !.temp_address = U16(@ + c.registers.x)]
        r == read(d, d.temp_address)
    IN IF ~r.ok THEN Fail(r.cpu, "BusError")
       ELSE Continue(update_zero_negative_flags(
                [r.cpu EXCEPT !.temp_data = r.value,
                              !.registers.accumulator = r.value], r.value))

----------------------------------------------------------------------------
(* Stores (microcode/sta.rs, stx.rs). *)

sta_accumulator_into_temp_address(c) ==
    LET d == [c EXCEPT !.temp_data = c.registers.accumulator]
        w == write(d, d.temp_address, d.temp_data)
    IN IF ~w.ok THEN Fail(w.cpu, "BusError") ELSE Continue(w.cpu)

sta_temp_address_data_into_temp_address_low_zero_page(c) ==
    LET r == read(c, c.temp_address)
    IN IF ~r.ok THEN Fail(r.cpu, "BusError")
       ELSE Continue([increment_pc(r.cpu) EXCEPT !.temp_address = r.value % 256])

sta_temp_address_data_into_temp_address_high(c) ==
    LET r == read(c, c.temp_address)
    IN IF ~r.ok THEN Fail(r.cpu, "BusError")
       ELSE Continue(increment_pc(
                [r.cpu EXCEPT !.temp_address = OrHigh(@, r.value)]))

stx_x_register_into_temp_address(c) ==
    LET d == [c EXCEPT !.temp_data = c.registers.x]
        w == write(d, d.temp_address, d.temp_data)
    IN IF ~w.ok THEN Fail(w.cpu, "BusError") ELSE Continue(w.cpu)

----------------------------------------------------------------------------
(* Arithmetic, logic and compare (microcode/adc.rs, sbc.rs, and.rs,        *)
(* cmp.rs, cpx.rs, cpy.rs, bit.rs).  alu::add and alu::sub never return    *)
(* Err, so their map_err branch is unreachable.                            *)

adc_operand_add_accumulator_and_carry(c) ==
    LET r == fetch_operand(c)
        d == [r.cpu EXCEPT !.temp_data = r.value]
        v == alu_add(d.registers.accumulator, d.temp_data, d.flags)
    IN IF ~r.ok THEN Fail(r.cpu, "BusError")
       ELSE Continue([d EXCEPT !.registers.accumulator = v.value,
                               !.flags = v.flags])

adc_accumulator_add_temp_address_data_and_carry(c) ==
    LET r == read(c, c.temp_address)
        d == [r.cpu EXCEPT !.temp_data = r.value]
        v == alu_add(d.registers.accumulator, d.temp_data, d.flags)
    IN IF ~r.ok THEN Fail(r.cpu, "BusError")
       ELSE Continue([d EXCEPT !.registers.accumulator = v.value,
                               !.flags = v.flags])

sbc_operand_subtract_from_accumulator_with_carry(c) ==
    LET r == fetch_operand(c)
        d == [r.cpu EXCEPT !.temp_data = r.value]
        v == alu_sub(d.registers.accumulator, d.temp_data, d.flags)
    IN IF ~r.ok THEN Fail(r.cpu, "BusError")
       ELSE Continue([d EXCEPT !.registers.accumulator = v.value,
                               !.flags = v.flags])

sbc_accumulator_subtract_temp_address_data_with_carry(c) ==
    LET r == read(c, c.temp_address)
        d == [r.cpu EXCEPT !.temp_data = r.value]
        v == alu_sub(d.registers.accumulator, d.temp_data, d.flags)
    IN IF ~r.ok THEN Fail(r.cpu, "BusError")
       ELSE Continue([d EXCEPT !.registers.accumulator = v.value,
                               !.flags = v.flags])

and_operand_and_accumulator(c) ==
    LET r == fetch_operand(c)
        d == [r.cpu EXCEPT !.temp_data = r.value]
        v == alu_and(d.registers.accumulator, d.temp_data, d.flags)
    IN IF ~r.ok THEN Fail(r.cpu, "BusError")
       ELSE Continue([d EXCEPT !.registers.accumulator = v.value,
                               !.flags = v.flags])

and_accumulator_and_temp_address_data(c) ==
    LET r == read(c, c.temp_address)
        d == [r.cpu EXCEPT !.temp_data = r.value]
        v == alu_and(d.registers.accumulator, d.temp_data, d.flags)
    IN IF ~r.ok THEN Fail(r.cpu, "BusError")
       ELSE Continue([d EXCEPT !.registers.accumulator = v.value,
                               !.flags = v.flags])

cmp_accumulator_cmp_operand(c) ==
    LET r == fetch_operand(c)
        d == [r.cpu EXCEPT !.temp_data = r.value]
    IN IF ~r.ok THEN Fail(r.cpu, "BusError")
       ELSE Continue([d EXCEPT !.flags =
                alu_cmp(d.registers.accumulator, d.temp_data, d.flags)])

cmp_accumulator_cmp_temp_address_data(c) ==
    LET r == read(c, c.temp_address)
        d == [r.cpu EXCEPT !.temp_data = r.value]
    IN IF ~r.ok THEN Fail(r.cpu, "BusError")
       ELSE Continue([d EXCEPT !.flags =
                alu_cmp(d.registers.accumulator, d.temp_data, d.flags)])

cpx_x_register_cmp_operand(c) ==
    LET r == fetch_operand(c)
        d == [r.cpu EXCEPT !.temp_data = r.value]
    IN IF ~r.ok THEN Fail(r.cpu, "BusError")
       ELSE Continue([d EXCEPT !.flags =
                alu_cmp(d.registers.x, d.temp_data, d.flags)])

cpx_x_register_cmp_temp_address_data(c) ==
    LET r == read(c, c.temp_address)
        d == [r.cpu EXCEPT !.temp_data = r.value]
    IN IF ~r.ok THEN Fail(r.cpu, "BusError")
       ELSE Continue([d EXCEPT !.flags =
                alu_cmp(d.registers.x, d.temp_data, d.flags)])

cpy_y_register_cmp_operand(c) ==
    LET r == fetch_operand(c)
        d == [r.cpu EXCEPT !.temp_data = r.value]
    IN IF ~r.ok THEN Fail(r.cpu, "BusError")
       ELSE Continue([d EXCEPT !.flags =
                alu_cmp(d.registers.y, d.temp_data, d.flags)])

cpy_y_register_cmp_temp_address_data(c) ==
    LET r == read(c, c.temp_address)
        d == [r.cpu EXCEPT !.temp_data = r.value]
    IN IF ~r.ok THEN Fail(r.cpu, "BusError")
       ELSE Continue([d EXCEPT !.flags =
                alu_cmp(d.registers.y, d.temp_data, d.flags)])

bit_accumulator_bit_temp_address_data(c) ==
    LET r == read(c, c.temp_address)
        d == [r.cpu EXCEPT !.temp_data = r.value]
    IN IF ~r.ok THEN Fail(r.cpu, "BusError")
       ELSE Continue([d EXCEPT !.flags =
                alu_bit(d.registers.accumulator, d.temp_data, d.flags)])

----------------------------------------------------------------------------
(* Read-modify-write (microcode/inc.rs, asl.rs, ror.rs). *)

\* inc_temp_data_no_flags reading the cell again before the write-back
inc_inc_temp_data_no_flags_rereading(c) ==
    LET r == read(c, c.temp_address)
        w == write(r.cpu, c.temp_address, r.value)
    IN IF ~r.ok THEN Fail(r.cpu, "BusError")
       ELSE IF ~w.ok THEN Fail(w.cpu, "BusError")
       ELSE Continue([w.cpu EXCEPT !.temp_data = U8(r.value + 1)])

inc_inc_temp_data_no_flags(c) ==
    LET w == write(c, c.temp_address, c.temp_data)
    IN IF ~w.ok THEN Fail(w.cpu, "BusError")
       ELSE Continue([w.cpu EXCEPT !.temp_data = U8(@ + 1)])

inc_temp_data_into_temp_address_flags(c) ==
    LET w == write(c, c.temp_address, c.temp_data)
    IN IF ~w.ok THEN Fail(w.cpu, "BusError")
       ELSE Continue(update_zero_negative_flags(w.cpu, c.temp_data))

asl_accumulator_asl(c) ==
    LET v == alu_asl(c.registers.accumulator, c.flags)
    IN Continue([c EXCEPT !.registers.accumulator = v.value,
                          !.flags = v.flags])

asl_temp_data_asl(c) ==
    LET v == alu_asl(c.temp_data, c.flags)
        d == [c EXCEPT !.temp_data = v.value, !.flags = v.flags]
        w == write(d, d.temp_address, d.temp_data)
    IN IF ~w.ok THEN Fail(w.cpu, "BusError") ELSE Continue(w.cpu)

ror_accumulator_ror(c) ==
    LET v == alu_ror(c.registers.accumulator, c.flags)
    IN Continue([c EXCEPT !.registers.accumulator = v.value,
                          !.flags = v.flags])

ror_temp_data_ror(c) ==
    LET v == alu_ror(c.temp_data, c.flags)
        d == [c EXCEPT !.temp_data = v.value, !.flags = v.flags]
        w == write(d, d.temp_address, d.temp_data)
    IN IF ~w.ok THEN Fail(w.cpu, "BusError") ELSE Continue(w.cpu)

----------------------------------------------------------------------------
(* Branches (microcode/beq.rs, bcs.rs, bmi.rs).                            *)
(* alu::add_pc_with_signed_offset never returns Err (an i16 is never above *)
(* i16::MAX), so its map_err branch is unreachable.                        *)

beq_fetch_offset(c) ==
    LET r == fetch_operand(c)
        d == [r.cpu EXCEPT !.temp_data = r.value]
    IN IF ~r.ok THEN Fail(r.cpu, "BusError")
       ELSE IF ~d.flags.zero THEN Break(d)
       ELSE Continue(d)

\* add_offset_to_program_counter measuring the page from the branch opcode
beq_add_offset_to_program_counter_from_opcode(c) ==
    LET old_pc == c.registers.program_counter
        d == [c EXCEPT !.registers.program_counter =
                 alu_add_pc_with_signed_offset(old_pc, c.temp_data)]
    IN IF HighByte(U16(old_pc + 65534)) # HighByte(d.registers.program_counter)
       THEN PageBoundaryPenalty(d, 1)
       ELSE Continue(d)

beq_add_offset_to_program_counter(c) ==
    LET old_pc == c.registers.program_counter
        d == [c EXCEPT !.registers.program_counter =
                 alu_add_pc_with_signed_offset(old_pc, c.temp_data)]
    IN IF HighByte(old_pc) # HighByte(d.registers.program_counter)
       THEN PageBoundaryPenalty(d, 1)
       ELSE Continue(d)

bcs_fetch_offset(c) ==
    LET r == fetch_operand(c)
        d == [r.cpu EXCEPT !.temp_data = r.value]
    IN IF ~r.ok THEN Fail(r.cpu, "BusError")
       ELSE IF ~d.flags.carry THEN Break(d)
       ELSE Continue(d)

\* bcs add_offset_to_program_counter queueing two ticks for a page crossed
bcs_add_offset_to_program_counter_double(c) ==
    LET old_pc == c.registers.program_counter
        d == [c EXCEPT !.registers.program_counter =
                 alu_add_pc_with_signed_offset(old_pc, c.temp_data)]
    IN IF HighByte(old_pc) # HighByte(d.registers.program_counter)
       THEN PageBoundaryPenalty(d, 2)
       ELSE Continue(d)

bcs_add_offset_to_program_counter(c) ==
    LET old_pc == c.registers.program_counter
        d == [c EXCEPT !.registers.program_counter =
                 alu_add_pc_with_signed_offset(old_pc, c.temp_data)]
    IN IF HighByte(old_pc) # HighByte(d.registers.program_counter)
       THEN PageBoundaryPenalty(d, 1)
       ELSE Continue(d)

bmi_fetch_offset(c) ==
    LET r == fetch_operand(c)
        d == [r.cpu EXCEPT !.temp_data = r.value]
    IN IF ~r.ok THEN Fail(r.cpu, "BusError")
       ELSE IF ~d.flags.negative THEN Break(d)
       ELSE Continue(d)

\* add_offset_to_program_counter never charging a crossed page
bmi_add_offset_to_program_counter_free(c) ==
    Continue([c EXCEPT !.registers.program_counter =
                 alu_add_pc_with_signed_offset(@, c.temp_data)])

bmi_add_offset_to_program_counter(c) ==
    LET old_pc == c.registers.program_counter
        d == [c EXCEPT !.registers.program_counter =
                 alu_add_pc_with_signed_offset(old_pc, c.temp_data)]
    IN IF HighByte(old_pc) # HighByte(d.registers.program_counter)
       THEN PageBoundaryPenalty(d, 1)
       ELSE Continue(d)

----------------------------------------------------------------------------
(* Jumps and subroutines (microcode/jmp.rs, jsr.rs, rts.rs). *)

jmp_operand_into_temp_address_high_into_program_counter(c) ==
    LET r == fetch_operand(c)
        d == [r.cpu EXCEPT !.temp_address = 256 * r.value]
    IN IF ~r.ok THEN Fail(r.cpu, "BusError")
       ELSE Continue([d EXCEPT !.registers.program_counter = d.temp_address])

jsr_return_address_high_to_stack(c) ==
    LET return_address == U16(c.registers.program_counter + 65535)
        w == push_stack_data(c, HighByte(return_address))
    IN IF ~w.ok THEN Fail(w.cpu, "BusError")
       ELSE Continue(push_stack_ptr(w.cpu))

jsr_return_address_low_to_stack(c) ==
    LET return_address == U16(c.registers.program_counter + 65535)
        w == push_stack_data(c, LowByte(return_address))
    IN IF ~w.ok THEN Fail(w.cpu, "BusError")
       ELSE Continue(push_stack_ptr(w.cpu))

jsr_jump_to_temp_address(c) ==
    Continue([c EXCEPT !.registers.program_counter = c.temp_address])

rts_stack_data_to_temp_address_low(c) ==
    LET r == pop_stack_data(pop_stack_ptr(c))
    IN IF ~r.ok THEN Fail(r.cpu, "BusError")
       ELSE Continue([r.cpu EXCEPT !.temp_address = r.value])

rts_stack_data_to_temp_address_high(c) ==
    LET r == pop_stack_data(pop_stack_ptr(c))
    IN IF ~r.ok THEN Fail(r.cpu, "BusError")
       ELSE Continue([r.cpu EXCEPT !.temp_address = OrHigh(@, r.value)])

\* increment_temp_address leaving the pulled address as it is
rts_increment_temp_address_skipped(c) == Continue(c)

rts_increment_temp_address(c) ==
    Continue([c EXCEPT !.temp_address = U16(@ + 1)])

rts_jump_to_temp_address(c) ==
    Continue([c EXCEPT !.registers.program_counter = c.temp_address])

----------------------------------------------------------------------------
(* Interrupts (microcode/brk.rs, rti.rs). *)

brk_return_address_high_to_stack(c) ==
    LET return_address == U16(c.registers.program_counter + 1)
        w == push_stack_data(c, HighByte(return_address))
    IN IF ~w.ok THEN Fail(w.cpu, "BusError")
       ELSE Continue(push_stack_ptr(w.cpu))

brk_return_address_low_to_stack(c) ==
    LET return_address == U16(c.registers.program_counter + 1)
        w == push_stack_data(c, LowByte(return_address))
    IN IF ~w.ok THEN Fail(w.cpu, "BusError")
       ELSE Continue(push_stack_ptr(w.cpu))

brk_flags_to_stack(c) ==
    LET d == [c EXCEPT !.flags.break_command = TRUE]
        w == push_stack_data(d, FlagsIntoU8(d.flags))
    IN IF ~w.ok THEN Fail(w.cpu, "BusError")
       ELSE Continue(push_stack_ptr(w.cpu))

brk_irq_vector_low_into_temp_address_low(c) ==
    LET r == read(c, 65534)
    IN IF ~r.ok THEN Fail(r.cpu, "BusError")
       ELSE Continue([r.cpu EXCEPT !.temp_address = r.value])

brk_irq_vector_high_into_temp_address_high_into_program_counter(c) ==
    LET r == read(c, 65535)
    IN IF ~r.ok THEN Fail(r.cpu, "BusError")
       ELSE Continue([r.cpu EXCEPT !.temp_address = OrHigh(@, r.value)])

rti_stack_to_flags(c) ==
    LET r == pop_stack_data(pop_stack_ptr(c))
    IN IF ~r.ok THEN Fail(r.cpu, "BusError")
       ELSE IF ~FlagsTryFromOk(r.value) THEN Fail(r.cpu, "Other")
       ELSE Continue([r.cpu EXCEPT !.flags = FlagsTryFrom(r.value)])

rti_stack_to_return_address_low(c) ==
    LET r == pop_stack_data(pop_stack_ptr(c))
    IN IF ~r.ok THEN Fail(r.cpu, "BusError")
       ELSE Continue([r.cpu EXCEPT !.registers.program_counter =
                256 * HighByte(@) + r.value])

\* stack_to_return_address_high stepping past the pulled address, as RTS does
rti_stack_to_return_address_high_adjusted(c) ==
    LET r == pop_stack_data(pop_stack_ptr(c))
    IN IF ~r.ok THEN Fail(r.cpu, "BusError")
       ELSE Continue([r.cpu EXCEPT !.registers.program_counter =
                U16(LowByte(@) + 256 * r.value + 1)])

rti_stack_to_return_address_high(c) ==
    LET r == pop_stack_data(pop_stack_ptr(c))
    IN IF ~r.ok THEN Fail(r.cpu, "BusError")
       ELSE Continue([r.cpu EXCEPT !.registers.program_counter =
                LowByte(@) + 256 * r.value])

----------------------------------------------------------------------------
(* Stack instructions (microcode/pha.rs, php.rs, pla.rs, plp.rs). *)

pha_push_accumulator_onto_stack(c) ==
    LET w == push_stack_data(c, c.registers.accumulator)
    IN IF ~w.ok THEN Fail(w.cpu, "BusError") ELSE Continue(w.cpu)

php_push_flags_onto_stack(c) ==
    LET w == push_stack_data(c, FlagsIntoU8(c.flags))
    IN IF ~w.ok THEN Fail(w.cpu, "BusError") ELSE Continue(w.cpu)

pla_pull_accumulator_from_stack(c) ==
    LET r == pop_stack_data(c)
    IN IF ~r.ok THEN Fail(r.cpu, "BusError")
       ELSE Continue([r.cpu EXCEPT !.registers.accumulator = r.value])

pla_update_zero_negative_flags(c) ==
    Continue(update_zero_negative_flags(c, c.registers.accumulator))

\* flags_from_temp_data decoding the byte whatever its bit 5 is
plp_flags_from_temp_data_unchecked(c) ==
    Continue([c EXCEPT !.flags = FlagsTryFrom(c.temp_data)])

plp_flags_from_temp_data(c) ==
    IF ~FlagsTryFromOk(c.temp_data) THEN Fail(c, "Other")
    ELSE Continue([c EXCEPT !.flags = FlagsTryFrom(c.temp_data)])

----------------------------------------------------------------------------
(* Flag instructions (microcode/clc.rs, cld.rs, cli.rs, clv.rs, sec.rs,    *)
(* sed.rs, sei.rs).                                                        *)

clc_clear_carry_flag(c) == Continue([c EXCEPT !.flags.carry = FALSE])

cld_clear_decimal_mode_flag(c) == Continue([c EXCEPT !.flags.decimal_mode = FALSE])

cli_clear_interrupt_disable_flag(c) == Continue([c EXCEPT !.flags.interrupt_disable = FALSE])

clv_clear_overflow_flag(c) == Continue([c EXCEPT !.flags.overflow = FALSE])

sec_set_carry_flag(c) == Continue([c EXCEPT !.flags.carry = TRUE])

sed_set_decimal_mode_flag(c) == Continue([c EXCEPT !.flags.decimal_mode = TRUE])

sei_set_interrupt_disable_flag(c) == Continue([c EXCEPT !.flags.interrupt_disable = TRUE])

----------------------------------------------------------------------------
(* Register instructions (microcode/dex.rs, dey.rs, inx.rs, iny.rs,        *)
(* tax.rs, tay.rs, tsx.rs, txa.rs, txs.rs, tya.rs).                        *)

dex_decrement_x_register(c) ==
    LET v == U8(c.registers.x + 255)
    IN Continue(update_zero_negative_flags(
            [c EXCEPT !.registers.x = v], v))

dey_decrement_y_register(c) ==
    LET v == U8(c.registers.y + 255)
    IN Continue(update_zero_negative_flags(
            [c EXCEPT !.registers.y = v], v))

inx_increment_x_register(c) ==
    LET v == U8(c.registers.x + 1)
    IN Continue(update_zero_negative_flags(
            [c EXCEPT !.registers.x = v], v))

iny_increment_y_register(c) ==
    LET v == U8(c.registers.y + 1)
    IN Continue(update_zero_negative_flags(
            [c EXCEPT !.registers.y = v], v))

tax_accumulator_into_x_register(c) ==
    LET v == c.registers.accumulator
    IN Continue(update_zero_negative_flags(
            [c EXCEPT !.registers.x = v], v))

tay_accumulator_into_y_register(c) ==
    LET v == c.registers.accumulator
    IN Continue(update_zero_negative_flags(
            [c EXCEPT !.registers.y = v], v))

tsx_stack_pointer_into_x_register(c) ==
    LET v == c.registers.stack_pointer
    IN Continue(update_zero_negative_flags(
            [c EXCEPT !.registers.x = v], v))

txa_x_register_into_accumulator(c) ==
    LET v == c.registers.x
    IN Continue(update_zero_negative_flags(
            [c EXCEPT !.registers.accumulator = v], v))

txs_x_register_into_stack_pointer(c) ==
    LET v == c.registers.x
    IN Continue(update_zero_negative_flags(
            [c EXCEPT !.registers.stack_pointer = v], v))

tya_y_register_into_accumulator(c) ==
    LET v == c.registers.y
    IN Continue(update_zero_negative_flags(
            [c EXCEPT !.registers.accumulator = v], v))
----------------------------------------------------------------------------
(* Modules named by microcode/mod.rs and the variant table whose files are *)
(* not part of the sources at hand: bcc, bne, bpl, bvc, bvs, dec, eor,     *)
(* lsr, nop, ora, rol, sty.  They follow the written specification         *)
(* (sections 4.2 to 4.4); micro-ops that differ only in the flag they test *)
(* or the ALU operation they apply share one definition.                   *)

\* <branch>::fetch_offset of bcc, bne, bpl, bvc, bvs
branch_fetch_offset(c, taken) ==
    LET r == fetch_operand(c)
        d == [r.cpu EXCEPT !.temp_data = r.value]
    IN IF ~r.ok THEN Fail(r.cpu, "BusError")
       ELSE IF ~taken THEN Break(d)
       ELSE Continue(d)

\* <branch>::add_offset_to_program_counter of bcc, bne, bpl, bvc, bvs
branch_add_offset_to_program_counter(c) ==
    LET old_pc == c.registers.program_counter
        d == [c EXCEPT !.registers.program_counter =
                 alu_add_pc_with_signed_offset(old_pc, c.temp_data)]
    IN IF HighByte(old_pc) # HighByte(d.registers.program_counter)
       THEN PageBoundaryPenalty(d, 1)
       ELSE Continue(d)

\* the ALU operation of ora and of eor
logic_alu(op, a, b, flags) ==
    IF op = "ora" THEN alu_ora(a, b, flags) ELSE alu_eor(a, b, flags)

\* ora, eor: immediate operand combined into the accumulator
logic_operand_with_accumulator(c, op) ==
    LET r == fetch_operand(c)
        d == [r.cpu EXCEPT !.temp_data = r.value]
        v == logic_alu(op, d.registers.accumulator, d.temp_data, d.flags)
    IN IF ~r.ok THEN Fail(r.cpu, "BusError")
       ELSE Continue([d EXCEPT !.registers.accumulator = v.value,
                               !.flags = v.flags])

\* ora, eor: the byte at temp_address combined into the accumulator
logic_accumulator_with_temp_address_data(c, op) ==
    LET r == read(c, c.temp_address)
        d == [r.cpu EXCEPT !.temp_data = r.value]
        v == logic_alu(op, d.registers.accumulator, d.temp_data, d.flags)
    IN IF ~r.ok THEN Fail(r.cpu, "BusError")
       ELSE Continue([d EXCEPT !.registers.accumulator = v.value,
                               !.flags = v.flags])

\* ora, eor: high address byte fetched, index added, page crossing charged
logic_operand_into_temp_address_high_add_index_page_boundary_check(c, index) ==
    LET r == fetch_operand(c)
        base == OrHigh(c.temp_address, r.value)
        d == [r.cpu EXCEPT !.temp_address = U16(base + index)]
    IN IF ~r.ok THEN Fail(r.cpu, "BusError")
       ELSE IF determine_page_cross_penalty(base, d.temp_address)
            THEN PageBoundaryPenalty(d, 1)
       ELSE Continue(d)

\* ora, eor (zp,X): pointer high byte read with zero-page wrap
logic_temp_data_low_and_temp_address_inc_high_zero_page(c) ==
    LET r == read(c, U16(c.temp_address + 1) % 256)
    IN IF ~r.ok THEN Fail(r.cpu, "BusError")
       ELSE Continue([r.cpu EXCEPT !.temp_address = c.temp_data + 256 * r.value])

\* the ALU operation of lsr and of rol
shift_alu(op, a, flags) ==
    IF op = "lsr" THEN alu_lsr(a, flags) ELSE alu_rol(a, flags)

\* lsr, rol: accumulator mode
shift_accumulator(c, op) ==
    LET v == shift_alu(op, c.registers.accumulator, c.flags)
    IN Continue([c EXCEPT !.registers.accumulator = v.value,
                          !.flags = v.flags])

\* lsr, rol: the internal modify step of read-modify-write
shift_temp_data(c, op) ==
    LET v == shift_alu(op, c.temp_data, c.flags)
    IN Continue([c EXCEPT !.temp_data = v.value, !.flags = v.flags])

dec_dec_temp_data_no_flags(c) ==
    Continue([c EXCEPT !.temp_data = U8(@ + 255)])

dec_temp_data_into_temp_address_flags(c) ==
    LET w == write(c, c.temp_address, c.temp_data)
    IN IF ~w.ok THEN Fail(w.cpu, "BusError")
       ELSE Continue(update_zero_negative_flags(w.cpu, c.temp_data))

sty_y_register_into_temp_address(c) ==
    LET d == [c EXCEPT !.temp_data = c.registers.y]
        w == write(d, d.temp_address, d.temp_data)
    IN IF ~w.ok THEN Fail(w.cpu, "BusError") ELSE Continue(w.cpu)
----------------------------------------------------------------------------
(* The instruction-variant table (instruction_variants.rs).  Each entry    *)
(* carries its micro-op sequence, the static of the microcode module named *)
(* beside it; a micro-op is named by a string and Exec dispatches on it.   *)

INSTRUCTION_VARIANTS ==
    <<[instruction |-> "LDA", mode |-> "Immediate", opcode |-> 169,
       microcode_sequence |-> \* lda::IMMEDIATE
         <<"lda_operand_into_accumulator">>],
      [instruction |-> "LDA", mode |-> "ZeroPage", opcode |-> 165,
       microcode_sequence |-> \* lda::ZEROPAGE
         <<"common_operand_into_temp_address_low",
           "lda_temp_address_data_into_accumulator">>],
      [instruction |-> "LDA", mode |-> "ZeroPageX", opcode |-> 181,
       microcode_sequence |-> \* lda::ZEROPAGE_X
         <<"common_operand_into_temp_address_low",
           "common_temp_address_add_x_register",
           "lda_temp_address_data_into_accumulator">>],
      [instruction |-> "LDA", mode |-> "Absolute", opcode |-> 173,
       microcode_sequence |-> \* lda::ABSOLUTE
         <<"common_operand_into_temp_address_low",
           "common_operand_into_temp_address_high",
           "lda_temp_address_data_into_accumulator">>],
      [instruction |-> "LDA", mode |-> "AbsoluteX", opcode |-> 189,
       microcode_sequence |-> \* lda::ABSOLUTE_X
         <<"common_operand_into_temp_address_low",
           "lda_operand_into_temp_address_high_add_x_page_boundary_check",
           "lda_temp_address_add_x_data_into_accumulator">>],
      [instruction |-> "LDA", mode |-> "AbsoluteY", opcode |-> 185,
       microcode_sequence |-> \* lda::ABSOLUTE_Y
         <<"common_operand_into_temp_address_low",
           "lda_operand_into_temp_address_high_add_y_page_boundary_check",
           "lda_temp_address_add_y_data_into_accumulator">>],
      [instruction |-> "LDA", mode |-> "IndirectX", opcode |-> 161,
       microcode_sequence |-> \* lda::INDIRECT_X
         <<"common_operand_into_temp_address_low",
           "common_temp_address_add_x_register",
           "common_temp_address_data_into_temp_data",
           "common_temp_data_low_and_temp_address_inc_high_into_temp_address",
           "lda_temp_address_data_into_accumulator">>],
      [instruction |-> "LDA", mode |-> "IndirectY", opcode |-> 177,
       microcode_sequence |-> \* lda::INDIRECT_Y
         <<"common_operand_into_temp_address_low",
           "common_temp_address_data_into_temp_data",
           "lda_temp_address_inc_data_as_temp_address_high_page_boundary_check",
           "lda_temp_address_add_y_data_into_accumulator">>],
      [instruction |-> "LDX", mode |-> "Immediate", opcode |-> 162,
       microcode_sequence |-> \* ldx::IMMEDIATE
         <<"ldx_operand_into_x_register">>],
      [instruction |-> "LDX", mode |-> "ZeroPage", opcode |-> 166,
       microcode_sequence |-> \* ldx::ZEROPAGE
         <<"common_operand_into_temp_address_low",
           "ldx_temp_address_data_into_x_register">>],
      [instruction |-> "LDX", mode |-> "ZeroPageY", opcode |-> 182,
       microcode_sequence |-> \* ldx::ZEROPAGE_Y
         <<"common_operand_into_temp_address_low",
           "common_temp_address_add_y_register",
           "ldx_temp_address_data_into_x_register">>],
      [instruction |-> "LDX", mode |-> "Absolute", opcode |-> 174,
       microcode_sequence |-> \* ldx::ABSOLUTE
         <<"common_operand_into_temp_address_low",
           "common_operand_into_temp_address_high",
           "ldx_temp_address_data_into_x_register">>],
      [instruction |-> "LDX", mode |-> "AbsoluteY", opcode |-> 190,
       microcode_sequence |-> \* ldx::ABSOLUTE_Y
         <<"common_operand_into_temp_address_low",
           "ldx_operand_into_temp_address_high_add_y_page_boundary_check",
           "ldx_temp_address_add_y_data_into_accumulator">>],
      [instruction |-> "LDY", mode |-> "Immediate", opcode |-> 160,
       microcode_sequence |-> \* ldy::IMMEDIATE
         <<"ldy_operand_into_y_register">>],
      [instruction |-> "LDY", mode |-> "ZeroPage", opcode |-> 164,
       microcode_sequence |-> \* ldy::ZEROPAGE
         <<"common_operand_into_temp_address_low",
           "ldy_temp_address_data_into_y_register">>],
      [instruction |-> "LDY", mode |-> "ZeroPageX", opcode |-> 180,
       microcode_sequence |-> \* ldy::ZEROPAGE_X
         <<"common_operand_into_temp_address_low",
           "common_temp_address_add_x_register",
           "ldy_temp_address_data_into_y_register">>],
      [instruction |-> "LDY", mode |-> "Absolute", opcode |-> 172,
       microcode_sequence |-> \* ldy::ABSOLUTE
         <<"common_operand_into_temp_address_low",
           "common_operand_into_temp_address_high",
           "ldy_temp_address_data_into_y_register">>],
      [instruction |-> "LDY", mode |-> "AbsoluteX", opcode |-> 188,
       microcode_sequence |-> \* ldy::ABSOLUTE_X
         <<"common_operand_into_temp_address_low",
           "ldy_operand_into_temp_address_high_add_x_page_boundary_check",
           "ldy_temp_address_add_x_data_into_accumulator">>],
      [instruction |-> "STA", mode |-> "ZeroPage", opcode |-> 133,
       microcode_sequence |-> \* sta::ZEROPAGE
         <<"common_operand_into_temp_address_low",
           "sta_accumulator_into_temp_address">>],
      [instruction |-> "STA", mode |-> "ZeroPageX", opcode |-> 149,
       microcode_sequence |-> \* sta::ZEROPAGE_X
         <<"common_operand_into_temp_address_low",
           "common_temp_address_add_x_register_zero_page",
           "sta_accumulator_into_temp_address">>],
      [instruction |-> "STA", mode |-> "Absolute", opcode |-> 141,
       microcode_sequence |-> \* sta::ABSOLUTE
         <<"common_operand_into_temp_address_low",
           "common_operand_into_temp_address_high",
           "sta_accumulator_into_temp_address">>],
      [instruction |-> "STA", mode |-> "AbsoluteX", opcode |-> 157,
       microcode_sequence |-> \* sta::ABSOLUTE_X
         <<"common_operand_into_temp_address_low",
           "common_operand_into_temp_address_high",
           "common_temp_address_add_x_register",
           "sta_accumulator_into_temp_address">>],
      [instruction |-> "STA", mode |-> "AbsoluteY", opcode |-> 153,
       microcode_sequence |-> \* sta::ABSOLUTE_Y
         <<"common_operand_into_temp_address_low",
           "common_operand_into_temp_address_high",
           "common_temp_address_add_y_register",
           "sta_accumulator_into_temp_address">>],
      [instruction |-> "STA", mode |-> "IndirectX", opcode |-> 129,
       microcode_sequence |-> \* sta::INDIRECT_X
         <<"common_operand_into_temp_address_low",
           "common_temp_address_add_x_register_zero_page",
           "sta_temp_address_data_into_temp_address_low_zero_page",
           "sta_temp_address_data_into_temp_address_high",
           "sta_accumulator_into_temp_address">>],
      [instruction |-> "STA", mode |-> "IndirectY", opcode |-> 145,
       microcode_sequence |-> \* sta::INDIRECT_Y
         <<"common_operand_into_temp_address_low",
           "sta_temp_address_data_into_temp_address_low_zero_page",
           "sta_temp_address_data_into_temp_address_high",
           "common_temp_address_add_y_register",
           "sta_accumulator_into_temp_address">>],
      [instruction |-> "STX", mode |-> "ZeroPage", opcode |-> 134,
       microcode_sequence |-> \* stx::ZEROPAGE
         <<"common_operand_into_temp_address_low",
           "stx_x_register_into_temp_address">>],
      [instruction |-> "STX", mode |-> "ZeroPageY", opcode |-> 150,
       microcode_sequence |-> \* stx::ZEROPAGE_Y
         <<"common_operand_into_temp_address_low",
           "common_temp_address_add_y_register_zero_page",
           "stx_x_register_into_temp_address">>],
      [instruction |-> "STX", mode |-> "Absolute", opcode |-> 142,
       microcode_sequence |-> \* stx::ABSOLUTE
         <<"common_operand_into_temp_address_low",
           "common_operand_into_temp_address_high",
           "stx_x_register_into_temp_address">>],
      [instruction |-> "STY", mode |-> "ZeroPage", opcode |-> 132,
       microcode_sequence |-> \* sty::ZEROPAGE
         <<"common_operand_into_temp_address_low",
           "sty_y_register_into_temp_address">>],
      [instruction |-> "STY", mode |-> "ZeroPageX", opcode |-> 148,
       microcode_sequence |-> \* sty::ZEROPAGE_Y
         <<"common_operand_into_temp_address_low",
           "common_temp_address_add_x_register_zero_page",
           "sty_y_register_into_temp_address">>],
      [instruction |-> "STY", mode |-> "Absolute", opcode |-> 140,
       microcode_sequence |-> \* sty::ABSOLUTE
         <<"common_operand_into_temp_address_low",
           "common_operand_into_temp_address_high",
           "sty_y_register_into_temp_address">>],
      [instruction |-> "TAX", mode |-> "Implied", opcode |-> 170,
       microcode_sequence |-> \* tax::IMPLIED
         <<"tax_accumulator_into_x_register">>],
      [instruction |-> "TAY", mode |-> "Implied", opcode |-> 168,
       microcode_sequence |-> \* tay::IMPLIED
         <<"tay_accumulator_into_y_register">>],
      [instruction |-> "TSX", mode |-> "Implied", opcode |-> 186,
       microcode_sequence |-> \* tsx::IMPLIED
         <<"tsx_stack_pointer_into_x_register">>],
      [instruction |-> "TXA", mode |-> "Implied", opcode |-> 138,
       microcode_sequence |-> \* txa::IMPLIED
         <<"txa_x_register_into_accumulator">>],
      [instruction |-> "TXS", mode |-> "Implied", opcode |-> 154,
       microcode_sequence |-> \* txs::IMPLIED
         <<"txs_x_register_into_stack_pointer">>],
      [instruction |-> "TYA", mode |-> "Implied", opcode |-> 152,
       microcode_sequence |-> \* tya::IMPLIED
         <<"tya_y_register_into_accumulator">>],
      [instruction |-> "PHA", mode |-> "Implied", opcode |-> 72,
       microcode_sequence |-> \* pha::IMPLIED
         <<"pha_push_accumulator_onto_stack",
           "common_push_stack_pointer">>],
      [instruction |-> "PHP", mode |-> "Implied", opcode |-> 8,
       microcode_sequence |-> \* php::IMPLIED
         <<"php_push_flags_onto_stack",
           "common_push_stack_pointer">>],
      [instruction |-> "PLA", mode |-> "Implied", opcode |-> 104,
       microcode_sequence |-> \* pla::IMPLIED
         <<"common_pop_stack_pointer",
           "pla_pull_accumulator_from_stack",
           "pla_update_zero_negative_flags">>],
      [instruction |-> "PLP", mode |-> "Implied", opcode |-> 40,
       microcode_sequence |-> \* plp::IMPLIED
         <<"common_pop_stack_pointer",
           "common_pop_stack_to_temp_data",
           "plp_flags_from_temp_data">>],
      [instruction |-> "DEC", mode |-> "ZeroPage", opcode |-> 198,
       microcode_sequence |-> \* dec::ZEROPAGE
         <<"common_operand_into_temp_address_low",
           "common_temp_address_data_into_temp_data",
           "dec_dec_temp_data_no_flags",
           "dec_temp_data_into_temp_address_flags">>],
      [instruction |-> "DEC", mode |-> "ZeroPageX", opcode |-> 214,
       microcode_sequence |-> \* dec::ZEROPAGE_X
         <<"common_operand_into_temp_address_low",
           "common_temp_address_add_x_register_zero_page",
           "common_temp_address_data_into_temp_data",
           "dec_dec_temp_data_no_flags",
           "dec_temp_data_into_temp_address_flags">>],
      [instruction |-> "DEC", mode |-> "Absolute", opcode |-> 206,
       microcode_sequence |-> \* dec::ABSOLUTE
         <<"common_operand_into_temp_address_low",
           "common_operand_into_temp_address_high",
           "common_temp_address_data_into_temp_data",
           "dec_dec_temp_data_no_flags",
           "dec_temp_data_into_temp_address_flags">>],
      [instruction |-> "DEC", mode |-> "AbsoluteX", opcode |-> 222,
       microcode_sequence |-> \* dec::ABSOLUTE_X
         <<"common_operand_into_temp_address_low",
           "common_operand_into_temp_address_high",
           "common_temp_address_add_x_register",
           "common_temp_address_data_into_temp_data",
           "dec_dec_temp_data_no_flags",
           "dec_temp_data_into_temp_address_flags">>],
      [instruction |-> "DEX", mode |-> "Implied", opcode |-> 202,
       microcode_sequence |-> \* dex::IMPLIED
         <<"dex_decrement_x_register">>],
      [instruction |-> "DEY", mode |-> "Implied", opcode |-> 136,
       microcode_sequence |-> \* dey::IMPLIED
         <<"dey_decrement_y_register">>],
      [instruction |-> "INC", mode |-> "ZeroPage", opcode |-> 230,
       microcode_sequence |-> \* inc::ZEROPAGE
         <<"common_operand_into_temp_address_low",
           "common_temp_address_data_into_temp_data",
           "inc_inc_temp_data_no_flags",
           "inc_temp_data_into_temp_address_flags">>],
      [instruction |-> "INC", mode |-> "ZeroPageX", opcode |-> 246,
       microcode_sequence |-> \* inc::ZEROPAGE_X
         <<"common_operand_into_temp_address_low",
           "common_temp_address_add_x_register_zero_page",
           "common_temp_address_data_into_temp_data",
           "inc_inc_temp_data_no_flags",
           "inc_temp_data_into_temp_address_flags">>],
      [instruction |-> "INC", mode |-> "Absolute", opcode |-> 238,
       microcode_sequence |-> \* inc::ABSOLUTE
         <<"common_operand_into_temp_address_low",
           "common_operand_into_temp_address_high",
           "common_temp_address_data_into_temp_data",
           "inc_inc_temp_data_no_flags",
           "inc_temp_data_into_temp_address_flags">>],
      [instruction |-> "INC", mode |-> "AbsoluteX", opcode |-> 254,
       microcode_sequence |-> \* inc::ABSOLUTE_X
         <<"common_operand_into_temp_address_low",
           "common_operand_into_temp_address_high",
           "common_temp_address_add_x_page_boundary_check",
           "common_temp_address_data_into_temp_data",
           "inc_inc_temp_data_no_flags",
           "inc_temp_data_into_temp_address_flags">>],
      [instruction |-> "INX", mode |-> "Implied", opcode |-> 232,
       microcode_sequence |-> \* inx::IMPLIED
         <<"inx_increment_x_register">>],
      [instruction |-> "INY", mode |-> "Implied", opcode |-> 200,
       microcode_sequence |-> \* iny::IMPLIED
         <<"iny_increment_y_register">>],
      [instruction |-> "ADC", mode |-> "Immediate", opcode |-> 105,
       microcode_sequence |-> \* adc::IMMEDIATE
         <<"adc_operand_add_accumulator_and_carry">>],
      [instruction |-> "ADC", mode |-> "ZeroPage", opcode |-> 101,
       microcode_sequence |-> \* adc::ZEROPAGE
         <<"common_operand_into_temp_address_low",
           "adc_accumulator_add_temp_address_data_and_carry">>],
      [instruction |-> "ADC", mode |-> "ZeroPageX", opcode |-> 117,
       microcode_sequence |-> \* adc::ZEROPAGE_X
         <<"common_operand_into_temp_address_low",
           "common_temp_address_add_x_register_zero_page",
           "adc_accumulator_add_temp_address_data_and_carry">>],
      [instruction |-> "ADC", mode |-> "Absolute", opcode |-> 109,
       microcode_sequence |-> \* adc::ABSOLUTE
         <<"common_operand_into_temp_address_low",
           "common_operand_into_temp_address_high",
           "adc_accumulator_add_temp_address_data_and_carry">>],
      [instruction |-> "ADC", mode |-> "AbsoluteX", opcode |-> 125,
       microcode_sequence |-> \* adc::ABSOLUTE_X
         <<"common_operand_into_temp_address_low",
           "common_operand_into_temp_address_high",
           "common_temp_address_add_x_page_boundary_check",
           "adc_accumulator_add_temp_address_data_and_carry">>],
      [instruction |-> "ADC", mode |-> "AbsoluteY", opcode |-> 121,
       microcode_sequence |-> \* adc::ABSOLUTE_Y
         <<"common_operand_into_temp_address_low",
           "common_operand_into_temp_address_high",
           "common_temp_address_add_y_page_boundary_check",
           "adc_accumulator_add_temp_address_data_and_carry">>],
      [instruction |-> "ADC", mode |-> "IndirectX", opcode |-> 97,
       microcode_sequence |-> \* adc::INDIRECT_X
         <<"common_operand_into_temp_address_low",
           "common_temp_address_add_x_register",
           "common_temp_address_data_into_temp_data",
           "common_temp_data_low_and_temp_address_inc_high_into_temp_address",
           "adc_accumulator_add_temp_address_data_and_carry">>],
      [instruction |-> "ADC", mode |-> "IndirectY", opcode |-> 113,
       microcode_sequence |-> \* adc::INDIRECT_Y
         <<"common_operand_into_temp_address_low",
           "common_temp_address_data_into_temp_data",
           "common_temp_address_inc_data_as_temp_address_high_add_y_page_boundary_check",
           "adc_accumulator_add_temp_address_data_and_carry">>],
      [instruction |-> "SBC", mode |-> "Immediate", opcode |-> 233,
       microcode_sequence |-> \* sbc::IMMEDIATE
         <<"sbc_operand_subtract_from_accumulator_with_carry">>],
      [instruction |-> "SBC", mode |-> "ZeroPage", opcode |-> 229,
       microcode_sequence |-> \* sbc::ZEROPAGE
         <<"common_operand_into_temp_address_low",
           "sbc_accumulator_subtract_temp_address_data_with_carry">>],
      [instruction |-> "SBC", mode |-> "ZeroPageX", opcode |-> 245,
       microcode_sequence |-> \* sbc::ZEROPAGE_X
         <<"common_operand_into_temp_address_low",
           "common_temp_address_add_x_register_zero_page",
           "sbc_accumulator_subtract_temp_address_data_with_carry">>],
      [instruction |-> "SBC", mode |-> "Absolute", opcode |-> 237,
       microcode_sequence |-> \* sbc::ABSOLUTE
         <<"common_operand_into_temp_address_low",
           "common_operand_into_temp_address_high",
           "sbc_accumulator_subtract_temp_address_data_with_carry">>],
      [instruction |-> "SBC", mode |-> "AbsoluteX", opcode |-> 253,
       microcode_sequence |-> \* sbc::ABSOLUTE_X
         <<"common_operand_into_temp_address_low",
           "common_operand_into_temp_address_high",
           "common_temp_address_add_x_page_boundary_check",
           "sbc_accumulator_subtract_temp_address_data_with_carry">>],
      [instruction |-> "SBC", mode |-> "AbsoluteY", opcode |-> 249,
       microcode_sequence |-> \* sbc::ABSOLUTE_Y
         <<"common_operand_into_temp_address_low",
           "common_operand_into_temp_address_high",
           "common_temp_address_add_y_page_boundary_check",
           "sbc_accumulator_subtract_temp_address_data_with_carry">>],
      [instruction |-> "SBC", mode |-> "IndirectX", opcode |-> 225,
       microcode_sequence |-> \* sbc::INDIRECT_X
         <<"common_operand_into_temp_address_low",
           "common_temp_address_add_x_register",
           "common_temp_address_data_into_temp_data",
           "common_temp_data_low_and_temp_address_inc_high_into_temp_address",
           "sbc_accumulator_subtract_temp_address_data_with_carry">>],
      [instruction |-> "SBC", mode |-> "IndirectY", opcode |-> 241,
       microcode_sequence |-> \* sbc::INDIRECT_Y
         <<"common_operand_into_temp_address_low",
           "common_temp_address_data_into_temp_data",
           "common_temp_address_inc_data_as_temp_address_high_add_y_page_boundary_check",
           "sbc_accumulator_subtract_temp_address_data_with_carry">>],
      [instruction |-> "AND", mode |-> "Immediate", opcode |-> 41,
       microcode_sequence |-> \* and::IMMEDIATE
         <<"and_operand_and_accumulator">>],
      [instruction |-> "AND", mode |-> "ZeroPage", opcode |-> 37,
       microcode_sequence |-> \* and::ZEROPAGE
         <<"common_operand_into_temp_address_low",
           "and_accumulator_and_temp_address_data">>],
      [instruction |-> "AND", mode |-> "ZeroPageX", opcode |-> 53,
       microcode_sequence |-> \* and::ZEROPAGE_X
         <<"common_operand_into_temp_address_low",
           "common_temp_address_add_x_register_zero_page",
           "and_accumulator_and_temp_address_data">>],
      [instruction |-> "AND", mode |-> "Absolute", opcode |-> 45,
       microcode_sequence |-> \* and::ABSOLUTE
         <<"common_operand_into_temp_address_low",
           "common_operand_into_temp_address_high",
           "and_accumulator_and_temp_address_data">>],
      [instruction |-> "AND", mode |-> "AbsoluteX", opcode |-> 61,
       microcode_sequence |-> \* and::ABSOLUTE_X
         <<"common_operand_into_temp_address_low",
           "common_operand_into_temp_address_high",
           "common_temp_address_add_x_page_boundary_check",
           "and_accumulator_and_temp_address_data">>],
      [instruction |-> "AND", mode |-> "AbsoluteY", opcode |-> 57,
       microcode_sequence |-> \* and::ABSOLUTE_Y
         <<"common_operand_into_temp_address_low",
           "common_operand_into_temp_address_high",
           "common_temp_address_add_y_page_boundary_check",
           "and_accumulator_and_temp_address_data">>],
      [instruction |-> "AND", mode |-> "IndirectX", opcode |-> 33,
       microcode_sequence |-> \* and::INDIRECT_X
         <<"common_operand_into_temp_address_low",
           "common_temp_address_add_x_register",
           "common_temp_address_data_into_temp_data",
           "common_temp_data_low_and_temp_address_inc_high_into_temp_address",
           "and_accumulator_and_temp_address_data">>],
      [instruction |-> "AND", mode |-> "IndirectY", opcode |-> 49,
       microcode_sequence |-> \* and::INDIRECT_Y
         <<"common_operand_into_temp_address_low",
           "common_temp_address_data_into_temp_data",
           "common_temp_address_inc_data_as_temp_address_high_add_y_page_boundary_check",
           "and_accumulator_and_temp_address_data">>],
      [instruction |-> "ORA", mode |-> "Immediate", opcode |-> 9,
       microcode_sequence |-> \* ora::IMMEDIATE
         <<"ora_operand_ora_accumulator">>],
      [instruction |-> "ORA", mode |-> "ZeroPage", opcode |-> 5,
       microcode_sequence |-> \* ora::ZEROPAGE
         <<"common_operand_into_temp_address_low",
           "ora_accumulator_ora_temp_address_data">>],
      [instruction |-> "ORA", mode |-> "ZeroPageX", opcode |-> 21,
       microcode_sequence |-> \* ora::ZEROPAGE_X
         <<"common_operand_into_temp_address_low",
           "common_temp_address_add_x_register_zero_page",
           "ora_accumulator_ora_temp_address_data">>],
      [instruction |-> "ORA", mode |-> "Absolute", opcode |-> 13,
       microcode_sequence |-> \* ora::ABSOLUTE
         <<"common_operand_into_temp_address_low",
           "common_operand_into_temp_address_high",
           "ora_accumulator_ora_temp_address_data">>],
      [instruction |-> "ORA", mode |-> "AbsoluteX", opcode |-> 29,
       microcode_sequence |-> \* ora::ABSOLUTE_X
         <<"common_operand_into_temp_address_low",
           "ora_operand_into_temp_address_high_add_x_page_boundary_check",
           "ora_accumulator_ora_temp_address_data">>],
      [instruction |-> "ORA", mode |-> "AbsoluteY", opcode |-> 25,
       microcode_sequence |-> \* ora::ABSOLUTE_Y
         <<"common_operand_into_temp_address_low",
           "ora_operand_into_temp_address_high_add_y_page_boundary_check",
           "ora_accumulator_ora_temp_address_data">>],
      [instruction |-> "ORA", mode |-> "IndirectX", opcode |-> 1,
       microcode_sequence |-> \* ora::INDIRECT_X
         <<"common_operand_into_temp_address_low",
           "common_temp_address_add_x_register_zero_page",
           "common_temp_address_data_into_temp_data",
           "ora_temp_data_low_and_temp_address_inc_high_zero_page",
           "ora_accumulator_ora_temp_address_data">>],
      [instruction |-> "ORA", mode |-> "IndirectY", opcode |-> 17,
       microcode_sequence |-> \* ora::INDIRECT_Y
         <<"common_operand_into_temp_address_low",
           "common_temp_address_data_into_temp_data",
           "common_temp_address_inc_data_as_temp_address_high_add_y_page_boundary_check",
           "ora_accumulator_ora_temp_address_data">>],
      [instruction |-> "EOR", mode |-> "Immediate", opcode |-> 73,
       microcode_sequence |-> \* eor::IMMEDIATE
         <<"eor_operand_eor_accumulator">>],
      [instruction |-> "EOR", mode |-> "ZeroPage", opcode |-> 69,
       microcode_sequence |-> \* eor::ZEROPAGE
         <<"common_operand_into_temp_address_low",
           "eor_accumulator_eor_temp_address_data">>],
      [instruction |-> "EOR", mode |-> "ZeroPageX", opcode |-> 85,
       microcode_sequence |-> \* eor::ZEROPAGE_X
         <<"common_operand_into_temp_address_low",
           "common_temp_address_add_x_register_zero_page",
           "eor_accumulator_eor_temp_address_data">>],
      [instruction |-> "EOR", mode |-> "Absolute", opcode |-> 77,
       microcode_sequence |-> \* eor::ABSOLUTE
         <<"common_operand_into_temp_address_low",
           "common_operand_into_temp_address_high",
           "eor_accumulator_eor_temp_address_data">>],
      [instruction |-> "EOR", mode |-> "AbsoluteX", opcode |-> 93,
       microcode_sequence |-> \* eor::ABSOLUTE_X
         <<"common_operand_into_temp_address_low",
           "eor_operand_into_temp_address_high_add_x_page_boundary_check",
           "eor_accumulator_eor_temp_address_data">>],
      [instruction |-> "EOR", mode |-> "AbsoluteY", opcode |-> 89,
       microcode_sequence |-> \* eor::ABSOLUTE_Y
         <<"common_operand_into_temp_address_low",
           "eor_operand_into_temp_address_high_add_y_page_boundary_check",
           "eor_accumulator_eor_temp_address_data">>],
      [instruction |-> "EOR", mode |-> "IndirectX", opcode |-> 65,
       microcode_sequence |-> \* eor::INDIRECT_X
         <<"common_operand_into_temp_address_low",
           "common_temp_address_add_x_register_zero_page",
           "common_temp_address_data_into_temp_data",
           "eor_temp_data_low_and_temp_address_inc_high_zero_page",
           "eor_accumulator_eor_temp_address_data">>],
      [instruction |-> "EOR", mode |-> "IndirectY", opcode |-> 81,
       microcode_sequence |-> \* eor::INDIRECT_Y
         <<"common_operand_into_temp_address_low",
           "common_temp_address_data_into_temp_data",
           "common_temp_address_inc_data_as_temp_address_high_add_y_page_boundary_check",
           "eor_accumulator_eor_temp_address_data">>],
      [instruction |-> "ASL", mode |-> "Accumulator", opcode |-> 10,
       microcode_sequence |-> \* asl::ACCUMULATOR
         <<"asl_accumulator_asl">>],
      [instruction |-> "ASL", mode |-> "ZeroPage", opcode |-> 6,
       microcode_sequence |-> \* asl::ZEROPAGE
         <<"common_operand_into_temp_address_low",
           "common_temp_address_data_into_temp_data",
           "asl_temp_data_asl",
           "common_temp_data_into_temp_address">>],
      [instruction |-> "ASL", mode |-> "ZeroPageX", opcode |-> 22,
       microcode_sequence |-> \* asl::ZEROPAGE_X
         <<"common_operand_into_temp_address_low",
           "common_temp_address_add_x_register_zero_page",
           "common_temp_address_data_into_temp_data",
           "asl_temp_data_asl",
           "common_temp_data_into_temp_address">>],
      [instruction |-> "ASL", mode |-> "Absolute", opcode |-> 14,
       microcode_sequence |-> \* asl::ABSOLUTE
         <<"common_operand_into_temp_address_low",
           "common_operand_into_temp_address_high",
           "common_temp_address_data_into_temp_data",
           "asl_temp_data_asl",
           "common_temp_data_into_temp_address">>],
      [instruction |-> "ASL", mode |-> "AbsoluteX", opcode |-> 30,
       microcode_sequence |-> \* asl::ABSOLUTE_X
         <<"common_operand_into_temp_address_low",
           "common_operand_into_temp_address_high",
           "common_temp_address_add_x_register",
           "common_temp_address_data_into_temp_data",
           "asl_temp_data_asl",
           "common_temp_data_into_temp_address">>],
      [instruction |-> "LSR", mode |-> "Accumulator", opcode |-> 74,
       microcode_sequence |-> \* lsr::ACCUMULATOR
         <<"lsr_accumulator_lsr">>],
      [instruction |-> "LSR", mode |-> "ZeroPage", opcode |-> 70,
       microcode_sequence |-> \* lsr::ZEROPAGE
         <<"common_operand_into_temp_address_low",
           "common_temp_address_data_into_temp_data",
           "lsr_temp_data_lsr",
           "common_temp_data_into_temp_address">>],
      [instruction |-> "LSR", mode |-> "ZeroPageX", opcode |-> 86,
       microcode_sequence |-> \* lsr::ZEROPAGE_X
         <<"common_operand_into_temp_address_low",
           "common_temp_address_add_x_register_zero_page",
           "common_temp_address_data_into_temp_data",
           "lsr_temp_data_lsr",
           "common_temp_data_into_temp_address">>],
      [instruction |-> "LSR", mode |-> "Absolute", opcode |-> 78,
       microcode_sequence |-> \* lsr::ABSOLUTE
         <<"common_operand_into_temp_address_low",
           "common_operand_into_temp_address_high",
           "common_temp_address_data_into_temp_data",
           "lsr_temp_data_lsr",
           "common_temp_data_into_temp_address">>],
      [instruction |-> "LSR", mode |-> "AbsoluteX", opcode |-> 94,
       microcode_sequence |-> \* lsr::ABSOLUTE_X
         <<"common_operand_into_temp_address_low",
           "common_operand_into_temp_address_high",
           "common_temp_address_add_x_register",
           "common_temp_address_data_into_temp_data",
           "lsr_temp_data_lsr",
           "common_temp_data_into_temp_address">>],
      [instruction |-> "ROL", mode |-> "Accumulator", opcode |-> 42,
       microcode_sequence |-> \* rol::ACCUMULATOR
         <<"rol_accumulator_rol">>],
      [instruction |-> "ROL", mode |-> "ZeroPage", opcode |-> 38,
       microcode_sequence |-> \* rol::ZEROPAGE
         <<"common_operand_into_temp_address_low",
           "common_temp_address_data_into_temp_data",
           "rol_temp_data_rol",
           "common_temp_data_into_temp_address">>],
      [instruction |-> "ROL", mode |-> "ZeroPageX", opcode |-> 54,
       microcode_sequence |-> \* rol::ZEROPAGE_X
         <<"common_operand_into_temp_address_low",
           "common_temp_address_add_x_register_zero_page",
           "common_temp_address_data_into_temp_data",
           "rol_temp_data_rol",
           "common_temp_data_into_temp_address">>],
      [instruction |-> "ROL", mode |-> "Absolute", opcode |-> 46,
       microcode_sequence |-> \* rol::ABSOLUTE
         <<"common_operand_into_temp_address_low",
           "common_operand_into_temp_address_high",
           "common_temp_address_data_into_temp_data",
           "rol_temp_data_rol",
           "common_temp_data_into_temp_address">>],
      [instruction |-> "ROL", mode |-> "AbsoluteX", opcode |-> 62,
       microcode_sequence |-> \* rol::ABSOLUTE_X
         <<"common_operand_into_temp_address_low",
           "common_operand_into_temp_address_high",
           "common_temp_address_add_x_register",
           "common_temp_address_data_into_temp_data",
           "rol_temp_data_rol",
           "common_temp_data_into_temp_address">>],
      [instruction |-> "ROR", mode |-> "Accumulator", opcode |-> 106,
       microcode_sequence |-> \* ror::ACCUMULATOR
         <<"ror_accumulator_ror">>],
      [instruction |-> "ROR", mode |-> "ZeroPage", opcode |-> 102,
       microcode_sequence |-> \* ror::ZEROPAGE
         <<"common_operand_into_temp_address_low",
           "common_temp_address_data_into_temp_data",
           "ror_temp_data_ror",
           "common_temp_data_into_temp_address">>],
      [instruction |-> "ROR", mode |-> "ZeroPageX", opcode |-> 118,
       microcode_sequence |-> \* ror::ZEROPAGE_X
         <<"common_operand_into_temp_address_low",
           "common_temp_address_add_x_register_zero_page",
           "common_temp_address_data_into_temp_data",
           "ror_temp_data_ror",
           "common_temp_data_into_temp_address">>],
      [instruction |-> "ROR", mode |-> "Absolute", opcode |-> 110,
       microcode_sequence |-> \* ror::ABSOLUTE
         <<"common_operand_into_temp_address_low",
           "common_operand_into_temp_address_high",
           "common_temp_address_data_into_temp_data",
           "ror_temp_data_ror",
           "common_temp_data_into_temp_address">>],
      [instruction |-> "ROR", mode |-> "AbsoluteX", opcode |-> 126,
       microcode_sequence |-> \* ror::ABSOLUTE_X
         <<"common_operand_into_temp_address_low",
           "common_operand_into_temp_address_high",
           "common_temp_address_add_x_register",
           "common_temp_address_data_into_temp_data",
           "ror_temp_data_ror",
           "common_temp_data_into_temp_address">>],
      [instruction |-> "CLC", mode |-> "Implied", opcode |-> 24,
       microcode_sequence |-> \* clc::IMPLIED
         <<"clc_clear_carry_flag">>],
      [instruction |-> "CLD", mode |-> "Implied", opcode |-> 216,
       microcode_sequence |-> \* cld::IMPLIED
         <<"cld_clear_decimal_mode_flag">>],
      [instruction |-> "CLI", mode |-> "Implied", opcode |-> 88,
       microcode_sequence |-> \* cli::IMPLIED
         <<"cli_clear_interrupt_disable_flag">>],
      [instruction |-> "CLV", mode |-> "Implied", opcode |-> 184,
       microcode_sequence |-> \* clv::IMPLIED
         <<"clv_clear_overflow_flag">>],
      [instruction |-> "SEC", mode |-> "Implied", opcode |-> 56,
       microcode_sequence |-> \* sec::IMPLIED
         <<"sec_set_carry_flag">>],
      [instruction |-> "SED", mode |-> "Implied", opcode |-> 248,
       microcode_sequence |-> \* sed::IMPLIED
         <<"sed_set_decimal_mode_flag">>],
      [instruction |-> "SEI", mode |-> "Implied", opcode |-> 120,
       microcode_sequence |-> \* sei::IMPLIED
         <<"sei_set_interrupt_disable_flag">>],
      [instruction |-> "CMP", mode |-> "Immediate", opcode |-> 201,
       microcode_sequence |-> \* cmp::IMMEDIATE
         <<"cmp_accumulator_cmp_operand">>],
      [instruction |-> "CMP", mode |-> "ZeroPage", opcode |-> 197,
       microcode_sequence |-> \* cmp::ZEROPAGE
         <<"common_operand_into_temp_address_low",
           "cmp_accumulator_cmp_temp_address_data">>],
      [instruction |-> "CMP", mode |-> "ZeroPageX", opcode |-> 213,
       microcode_sequence |-> \* cmp::ZEROPAGE_X
         <<"common_operand_into_temp_address_low",
           "common_temp_address_add_x_register_zero_page",
           "cmp_accumulator_cmp_temp_address_data">>],
      [instruction |-> "CMP", mode |-> "Absolute", opcode |-> 205,
       microcode_sequence |-> \* cmp::ABSOLUTE
         <<"common_operand_into_temp_address_low",
           "common_operand_into_temp_address_high",
           "cmp_accumulator_cmp_temp_address_data">>],
      [instruction |-> "CMP", mode |-> "AbsoluteX", opcode |-> 221,
       microcode_sequence |-> \* cmp::ABSOLUTE_X
         <<"common_operand_into_temp_address_low",
           "common_operand_into_temp_address_high",
           "common_temp_address_add_x_page_boundary_check",
           "cmp_accumulator_cmp_temp_address_data">>],
      [instruction |-> "CMP", mode |-> "AbsoluteY", opcode |-> 217,
       microcode_sequence |-> \* cmp::ABSOLUTE_Y
         <<"common_operand_into_temp_address_low",
           "common_operand_into_temp_address_high",
           "common_temp_address_add_y_page_boundary_check",
           "cmp_accumulator_cmp_temp_address_data">>],
      [instruction |-> "CMP", mode |-> "IndirectX", opcode |-> 193,
       microcode_sequence |-> \* cmp::INDIRECT_X
         <<"common_operand_into_temp_address_low",
           "common_temp_address_add_x_register",
           "common_temp_address_data_into_temp_data",
           "common_temp_data_low_and_temp_address_inc_high_into_temp_address",
           "cmp_accumulator_cmp_temp_address_data">>],
      [instruction |-> "CMP", mode |-> "IndirectY", opcode |-> 209,
       microcode_sequence |-> \* cmp::INDIRECT_Y
         <<"common_operand_into_temp_address_low",
           "common_temp_address_data_into_temp_data",
           "common_temp_address_inc_data_as_temp_address_high_add_y_page_boundary_check",
           "cmp_accumulator_cmp_temp_address_data">>],
      [instruction |-> "CPX", mode |-> "Immediate", opcode |-> 224,
       microcode_sequence |-> \* cpx::IMMEDIATE
         <<"cpx_x_register_cmp_operand">>],
      [instruction |-> "CPX", mode |-> "ZeroPage", opcode |-> 228,
       microcode_sequence |-> \* cpx::ZEROPAGE
         <<"common_operand_into_temp_address_low",
           "cpx_x_register_cmp_temp_address_data">>],
      [instruction |-> "CPX", mode |-> "Absolute", opcode |-> 236,
       microcode_sequence |-> \* cpx::ABSOLUTE
         <<"common_operand_into_temp_address_low",
           "common_operand_into_temp_address_high",
           "cpx_x_register_cmp_temp_address_data">>],
      [instruction |-> "CPY", mode |-> "Immediate", opcode |-> 192,
       microcode_sequence |-> \* cpy::IMMEDIATE
         <<"cpy_y_register_cmp_operand">>],
      [instruction |-> "CPY", mode |-> "ZeroPage", opcode |-> 196,
       microcode_sequence |-> \* cpy::ZEROPAGE
         <<"common_operand_into_temp_address_low",
           "cpy_y_register_cmp_temp_address_data">>],
      [instruction |-> "CPY", mode |-> "Absolute", opcode |-> 204,
       microcode_sequence |-> \* cpy::ABSOLUTE
         <<"common_operand_into_temp_address_low",
           "common_operand_into_temp_address_high",
           "cpy_y_register_cmp_temp_address_data">>],
      [instruction |-> "BCC", mode |-> "Relative", opcode |-> 144,
       microcode_sequence |-> \* bcc::RELATIVE
         <<"bcc_fetch_offset",
           "bcc_add_offset_to_program_counter">>],
      [instruction |-> "BCS", mode |-> "Relative", opcode |-> 176,
       microcode_sequence |-> \* bcs::RELATIVE
         <<"bcs_fetch_offset",
           "bcs_add_offset_to_program_counter">>],
      [instruction |-> "BEQ", mode |-> "Relative", opcode |-> 240,
       microcode_sequence |-> \* beq::RELATIVE
         <<"beq_fetch_offset",
           "beq_add_offset_to_program_counter">>],
      [instruction |-> "BMI", mode |-> "Relative", opcode |-> 48,
       microcode_sequence |-> \* bmi::RELATIVE
         <<"bmi_fetch_offset",
           "bmi_add_offset_to_program_counter">>],
      [instruction |-> "BNE", mode |-> "Relative", opcode |-> 208,
       microcode_sequence |-> \* bne::RELATIVE
         <<"bne_fetch_offset",
           "bne_add_offset_to_program_counter">>],
      [instruction |-> "BPL", mode |-> "Relative", opcode |-> 16,
       microcode_sequence |-> \* bpl::RELATIVE
         <<"bpl_fetch_offset",
           "bpl_add_offset_to_program_counter">>],
      [instruction |-> "BVC", mode |-> "Relative", opcode |-> 80,
       microcode_sequence |-> \* bvc::RELATIVE
         <<"bvc_fetch_offset",
           "bvc_add_offset_to_program_counter">>],
      [instruction |-> "BVS", mode |-> "Relative", opcode |-> 112,
       microcode_sequence |-> \* bvs::RELATIVE
         <<"bvs_fetch_offset",
           "bvs_add_offset_to_program_counter">>],
      [instruction |-> "JMP", mode |-> "Absolute", opcode |-> 76,
       microcode_sequence |-> \* jmp::ABSOLUTE
         <<"common_operand_into_temp_address_low",
           "jmp_operand_into_temp_address_high_into_program_counter">>],
      [instruction |-> "JMP", mode |-> "Indirect", opcode |-> 108,
       microcode_sequence |-> \* jmp::INDIRECT
         <<"common_operand_into_temp_address_low",
           "common_operand_into_temp_address_high",
           "common_temp_address_data_into_temp_data",
           "common_temp_data_low_and_temp_address_inc_high_into_temp_address",
           "jmp_operand_into_temp_address_high_into_program_counter">>],
      [instruction |-> "JSR", mode |-> "Absolute", opcode |-> 32,
       microcode_sequence |-> \* jsr::ABSOLUTE
         <<"common_operand_into_temp_address_low",
           "common_operand_into_temp_address_high",
           "jsr_return_address_high_to_stack",
           "jsr_return_address_low_to_stack",
           "jsr_jump_to_temp_address">>],
      [instruction |-> "RTS", mode |-> "Implied", opcode |-> 96,
       microcode_sequence |-> \* rts::IMPLIED
         <<"common_none",
           "rts_stack_data_to_temp_address_low",
           "rts_stack_data_to_temp_address_high",
           "rts_increment_temp_address",
           "rts_jump_to_temp_address">>],
      [instruction |-> "BRK", mode |-> "Implied", opcode |-> 0,
       microcode_sequence |-> \* brk::IMPLIED
         <<"common_none",
           "brk_return_address_high_to_stack",
           "brk_return_address_low_to_stack",
           "brk_flags_to_stack",
           "brk_irq_vector_low_into_temp_address_low",
           "brk_irq_vector_high_into_temp_address_high_into_program_counter">>],
      [instruction |-> "RTI", mode |-> "Implied", opcode |-> 64,
       microcode_sequence |-> \* rti::IMPLIED
         <<"common_none",
           "rti_stack_to_flags",
           "rti_stack_to_return_address_low",
           "rti_stack_to_return_address_high",
           "common_none">>],
      [instruction |-> "BIT", mode |-> "ZeroPage", opcode |-> 36,
       microcode_sequence |-> \* bit::ZEROPAGE
         <<"common_operand_into_temp_address_low",
           "bit_accumulator_bit_temp_address_data">>],
      [instruction |-> "BIT", mode |-> "Absolute", opcode |-> 44,
       microcode_sequence |-> \* bit::ABSOLUTE
         <<"common_operand_into_temp_address_low",
           "common_operand_into_temp_address_high",
           "bit_accumulator_bit_temp_address_data">>],
      [instruction |-> "NOP", mode |-> "Implied", opcode |-> 234,
       microcode_sequence |-> \* nop::IMPLIED
         <<"common_none">>]>>

----------------------------------------------------------------------------
(* Calling a micro-op through its function pointer. *)

Exec(name, c) ==
    CASE name = "adc_operand_add_accumulator_and_carry" ->
           adc_operand_add_accumulator_and_carry(c)
      [] name = "common_operand_into_temp_address_low" ->
           common_operand_into_temp_address_low(c)
      [] name = "adc_accumulator_add_temp_address_data_and_carry" ->
           adc_accumulator_add_temp_address_data_and_carry(c)
      [] name = "common_temp_address_add_x_register_zero_page" ->
           common_temp_address_add_x_register_zero_page(c)
      [] name = "common_operand_into_temp_address_high" ->
           common_operand_into_temp_address_high(c)
      [] name = "common_temp_address_add_x_page_boundary_check" ->
           common_temp_address_add_x_page_boundary_check(c)
      [] name = "common_temp_address_add_y_page_boundary_check" ->
           common_temp_address_add_y_page_boundary_check(c)
      [] name = "common_temp_address_add_x_register" ->
           common_temp_address_add_x_register(c)
      [] name = "common_temp_address_data_into_temp_data" ->
           common_temp_address_data_into_temp_data(c)
      [] name = "common_temp_data_low_and_temp_address_inc_high_into_temp_address" ->
           common_temp_data_low_and_temp_address_inc_high_into_temp_address(c)
      [] name = "common_temp_address_inc_data_as_temp_address_high_add_y_page_boundary_check" ->
           common_temp_address_inc_data_as_temp_address_high_add_y_page_boundary_check(c)
      [] name = "and_operand_and_accumulator" ->
           and_operand_and_accumulator(c)
      [] name = "and_accumulator_and_temp_address_data" ->
           and_accumulator_and_temp_address_data(c)
      [] name = "asl_accumulator_asl" ->
           asl_accumulator_asl(c)
      [] name = "asl_temp_data_asl" ->
           asl_temp_data_asl(c)
      [] name = "common_temp_data_into_temp_address" ->
           common_temp_data_into_temp_address(c)
      [] name = "bcs_fetch_offset" ->
           bcs_fetch_offset(c)
      [] name = "bcs_add_offset_to_program_counter" ->
           bcs_add_offset_to_program_counter(c)
      [] name = "beq_fetch_offset" ->
           beq_fetch_offset(c)
      [] name = "beq_add_offset_to_program_counter" ->
           beq_add_offset_to_program_counter(c)
      [] name = "bit_accumulator_bit_temp_address_data" ->
           bit_accumulator_bit_temp_address_data(c)
      [] name = "bmi_fetch_offset" ->
           bmi_fetch_offset(c)
      [] name = "bmi_add_offset_to_program_counter" ->
           bmi_add_offset_to_program_counter(c)
      [] name = "common_none" ->
           common_none(c)
      [] name = "brk_return_address_high_to_stack" ->
           brk_return_address_high_to_stack(c)
      [] name = "brk_return_address_low_to_stack" ->
           brk_return_address_low_to_stack(c)
      [] name = "brk_flags_to_stack" ->
           brk_flags_to_stack(c)
      [] name = "brk_irq_vector_low_into_temp_address_low" ->
           brk_irq_vector_low_into_temp_address_low(c)
      [] name = "brk_irq_vector_high_into_temp_address_high_into_program_counter" ->
           brk_irq_vector_high_into_temp_address_high_into_program_counter(c)
      [] name = "clc_clear_carry_flag" ->
           clc_clear_carry_flag(c)
      [] name = "cld_clear_decimal_mode_flag" ->
           cld_clear_decimal_mode_flag(c)
      [] name = "cli_clear_interrupt_disable_flag" ->
           cli_clear_interrupt_disable_flag(c)
      [] name = "clv_clear_overflow_flag" ->
           clv_clear_overflow_flag(c)
      [] name = "cmp_accumulator_cmp_operand" ->
           cmp_accumulator_cmp_operand(c)
      [] name = "cmp_accumulator_cmp_temp_address_data" ->
           cmp_accumulator_cmp_temp_address_data(c)
      [] name = "cpx_x_register_cmp_operand" ->
           cpx_x_register_cmp_operand(c)
      [] name = "cpx_x_register_cmp_temp_address_data" ->
           cpx_x_register_cmp_temp_address_data(c)
      [] name = "cpy_y_register_cmp_operand" ->
           cpy_y_register_cmp_operand(c)
      [] name = "cpy_y_register_cmp_temp_address_data" ->
           cpy_y_register_cmp_temp_address_data(c)
      [] name = "dex_decrement_x_register" ->
           dex_decrement_x_register(c)
      [] name = "dey_decrement_y_register" ->
           dey_decrement_y_register(c)
      [] name = "inc_inc_temp_data_no_flags" ->
           inc_inc_temp_data_no_flags(c)
      [] name = "inc_temp_data_into_temp_address_flags" ->
           inc_temp_data_into_temp_address_flags(c)
      [] name = "inx_increment_x_register" ->
           inx_increment_x_register(c)
      [] name = "iny_increment_y_register" ->
           iny_increment_y_register(c)
      [] name = "jmp_operand_into_temp_address_high_into_program_counter" ->
           jmp_operand_into_temp_address_high_into_program_counter(c)
      [] name = "jsr_return_address_high_to_stack" ->
           jsr_return_address_high_to_stack(c)
      [] name = "jsr_return_address_low_to_stack" ->
           jsr_return_address_low_to_stack(c)
      [] name = "jsr_jump_to_temp_address" ->
           jsr_jump_to_temp_address(c)
      [] name = "lda_operand_into_accumulator" ->
           lda_operand_into_accumulator(c)
      [] name = "lda_temp_address_data_into_accumulator" ->
           lda_temp_address_data_into_accumulator(c)
      [] name = "lda_operand_into_temp_address_high_add_x_page_boundary_check" ->
           lda_operand_into_temp_address_high_add_x_page_boundary_check(c)
      [] name = "lda_temp_address_add_x_data_into_accumulator" ->
           lda_temp_address_add_x_data_into_accumulator(c)
      [] name = "lda_operand_into_temp_address_high_add_y_page_boundary_check" ->
           lda_operand_into_temp_address_high_add_y_page_boundary_check(c)
      [] name = "lda_temp_address_add_y_data_into_accumulator" ->
           lda_temp_address_add_y_data_into_accumulator(c)
      [] name = "lda_temp_address_inc_data_as_temp_address_high_page_boundary_check" ->
           lda_temp_address_inc_data_as_temp_address_high_page_boundary_check(c)
      [] name = "ldx_operand_into_x_register" ->
           ldx_operand_into_x_register(c)
      [] name = "ldx_temp_address_data_into_x_register" ->
           ldx_temp_address_data_into_x_register(c)
      [] name = "common_temp_address_add_y_register" ->
           common_temp_address_add_y_register(c)
      [] name = "ldx_operand_into_temp_address_high_add_y_page_boundary_check" ->
           ldx_operand_into_temp_address_high_add_y_page_boundary_check(c)
      [] name = "ldx_temp_address_add_y_data_into_accumulator" ->
           ldx_temp_address_add_y_data_into_accumulator(c)
      [] name = "ldy_operand_into_y_register" ->
           ldy_operand_into_y_register(c)
      [] name = "ldy_temp_address_data_into_y_register" ->
           ldy_temp_address_data_into_y_register(c)
      [] name = "ldy_operand_into_temp_address_high_add_x_page_boundary_check" ->
           ldy_operand_into_temp_address_high_add_x_page_boundary_check(c)
      [] name = "ldy_temp_address_add_x_data_into_accumulator" ->
           ldy_temp_address_add_x_data_into_accumulator(c)
      [] name = "pha_push_accumulator_onto_stack" ->
           pha_push_accumulator_onto_stack(c)
      [] name = "common_push_stack_pointer" ->
           common_push_stack_pointer(c)
      [] name = "php_push_flags_onto_stack" ->
           php_push_flags_onto_stack(c)
      [] name = "common_pop_stack_pointer" ->
           common_pop_stack_pointer(c)
      [] name = "pla_pull_accumulator_from_stack" ->
           pla_pull_accumulator_from_stack(c)
      [] name = "pla_update_zero_negative_flags" ->
           pla_update_zero_negative_flags(c)
      [] name = "common_pop_stack_to_temp_data" ->
           common_pop_stack_to_temp_data(c)
      [] name = "plp_flags_from_temp_data" ->
           plp_flags_from_temp_data(c)
      [] name = "ror_accumulator_ror" ->
           ror_accumulator_ror(c)
      [] name = "ror_temp_data_ror" ->
           ror_temp_data_ror(c)
      [] name = "rti_stack_to_flags" ->
           rti_stack_to_flags(c)
      [] name = "rti_stack_to_return_address_low" ->
           rti_stack_to_return_address_low(c)
      [] name = "rti_stack_to_return_address_high" ->
           rti_stack_to_return_address_high(c)
      [] name = "rts_stack_data_to_temp_address_low" ->
           rts_stack_data_to_temp_address_low(c)
      [] name = "rts_stack_data_to_temp_address_high" ->
           rts_stack_data_to_temp_address_high(c)
      [] name = "rts_increment_temp_address" ->
           rts_increment_temp_address(c)
      [] name = "rts_jump_to_temp_address" ->
           rts_jump_to_temp_address(c)
      [] name = "sbc_operand_subtract_from_accumulator_with_carry" ->
           sbc_operand_subtract_from_accumulator_with_carry(c)
      [] name = "sbc_accumulator_subtract_temp_address_data_with_carry" ->
           sbc_accumulator_subtract_temp_address_data_with_carry(c)
      [] name = "sec_set_carry_flag" ->
           sec_set_carry_flag(c)
      [] name = "sed_set_decimal_mode_flag" ->
           sed_set_decimal_mode_flag(c)
      [] name = "sei_set_interrupt_disable_flag" ->
           sei_set_interrupt_disable_flag(c)
      [] name = "sta_accumulator_into_temp_address" ->
           sta_accumulator_into_temp_address(c)
      [] name = "sta_temp_address_data_into_temp_address_low_zero_page" ->
           sta_temp_address_data_into_temp_address_low_zero_page(c)
      [] name = "sta_temp_address_data_into_temp_address_high" ->
           sta_temp_address_data_into_temp_address_high(c)
      [] name = "stx_x_register_into_temp_address" ->
           stx_x_register_into_temp_address(c)
      [] name = "common_temp_address_add_y_register_zero_page" ->
           common_temp_address_add_y_register_zero_page(c)
      [] name = "tax_accumulator_into_x_register" ->
           tax_accumulator_into_x_register(c)
      [] name = "tay_accumulator_into_y_register" ->
           tay_accumulator_into_y_register(c)
      [] name = "tsx_stack_pointer_into_x_register" ->
           tsx_stack_pointer_into_x_register(c)
      [] name = "txa_x_register_into_accumulator" ->
           txa_x_register_into_accumulator(c)
      [] name = "txs_x_register_into_stack_pointer" ->
           txs_x_register_into_stack_pointer(c)
      [] name = "tya_y_register_into_accumulator" ->
           tya_y_register_into_accumulator(c)
      [] name = "bcc_fetch_offset" ->
           branch_fetch_offset(c, ~c.flags.carry)
      [] name = "bcc_add_offset_to_program_counter" ->
           branch_add_offset_to_program_counter(c)
      [] name = "bne_fetch_offset" ->
           branch_fetch_offset(c, ~c.flags.zero)
      [] name = "bne_add_offset_to_program_counter" ->
           branch_add_offset_to_program_counter(c)
      [] name = "bpl_fetch_offset" ->
           branch_fetch_offset(c, ~c.flags.negative)
      [] name = "bpl_add_offset_to_program_counter" ->
           branch_add_offset_to_program_counter(c)
      [] name = "bvc_fetch_offset" ->
           branch_fetch_offset(c, ~c.flags.overflow)
      [] name = "bvc_add_offset_to_program_counter" ->
           branch_add_offset_to_program_counter(c)
      [] name = "bvs_fetch_offset" ->
           branch_fetch_offset(c, c.flags.overflow)
      [] name = "bvs_add_offset_to_program_counter" ->
           branch_add_offset_to_program_counter(c)
      [] name = "ora_operand_ora_accumulator" ->
           logic_operand_with_accumulator(c, "ora")
      [] name = "ora_accumulator_ora_temp_address_data" ->
           logic_accumulator_with_temp_address_data(c, "ora")
      [] name = "ora_operand_into_temp_address_high_add_x_page_boundary_check" ->
           logic_operand_into_temp_address_high_add_index_page_boundary_check(
               c, c.registers.x)
      [] name = "ora_operand_into_temp_address_high_add_y_page_boundary_check" ->
           logic_operand_into_temp_address_high_add_index_page_boundary_check(
               c, c.registers.y)
      [] name = "ora_temp_data_low_and_temp_address_inc_high_zero_page" ->
           logic_temp_data_low_and_temp_address_inc_high_zero_page(c)
      [] name = "eor_operand_eor_accumulator" ->
           logic_operand_with_accumulator(c, "eor")
      [] name = "eor_accumulator_eor_temp_address_data" ->
           logic_accumulator_with_temp_address_data(c, "eor")
      [] name = "eor_operand_into_temp_address_high_add_x_page_boundary_check" ->
           logic_operand_into_temp_address_high_add_index_page_boundary_check(
               c, c.registers.x)
      [] name = "eor_operand_into_temp_address_high_add_y_page_boundary_check" ->
           logic_operand_into_temp_address_high_add_index_page_boundary_check(
               c, c.registers.y)
      [] name = "eor_temp_data_low_and_temp_address_inc_high_zero_page" ->
           logic_temp_data_low_and_temp_address_inc_high_zero_page(c)
      [] name = "lsr_accumulator_lsr" ->
           shift_accumulator(c, "lsr")
      [] name = "lsr_temp_data_lsr" ->
           shift_temp_data(c, "lsr")
      [] name = "rol_accumulator_rol" ->
           shift_accumulator(c, "rol")
      [] name = "rol_temp_data_rol" ->
           shift_temp_data(c, "rol")
      [] name = "dec_dec_temp_data_no_flags" ->
           dec_dec_temp_data_no_flags(c)
      [] name = "dec_temp_data_into_temp_address_flags" ->
           dec_temp_data_into_temp_address_flags(c)
      [] name = "sty_y_register_into_temp_address" ->
           sty_y_register_into_temp_address(c)
----------------------------------------------------------------------------
(* Opcode lookup (opcodes/mod.rs). *)

\* index of the default variant, &INSTRUCTION_VARIANTS[150], counted from 1
DEFAULT_INSTRUCTION_VARIANT == 151

\* variant_by_opcode with a search that stops one entry short of the table end
variant_by_opcode_short(opcode) ==
    LET hits == {i \in 1..(Len(INSTRUCTION_VARIANTS) - 1) :
                    INSTRUCTION_VARIANTS[i].opcode = opcode}
    IN IF hits = {} THEN 0
       ELSE CHOOSE i \in hits : \A j \in hits : i <= j

\* the index of the first table entry with that opcode byte, 0 for None
variant_by_opcode(opcode) ==
    LET hits == {i \in 1..Len(INSTRUCTION_VARIANTS) :
                    INSTRUCTION_VARIANTS[i].opcode = opcode}
    IN IF hits = {} THEN 0
       ELSE CHOOSE i \in hits : \A j \in hits : i <= j

----------------------------------------------------------------------------
(* The Cpu (cpu.rs). *)

\* Cpu::new
CpuNew(bus) ==
    [flags |-> FlagsDefault,
     registers |-> RegistersDefault,
     bus |-> bus,
     current_instruction |-> DEFAULT_INSTRUCTION_VARIANT,
     current_microcode_iter |-> <<>>,
     temp_address |-> 0,
     temp_data |-> 0,
     page_boundary_cross_penalty |-> 0,
     cycles |-> U64Zero]

\* reset leaving the cycle counter as it is
reset_keeps_cycles(c) ==
    LET c1 == [c EXCEPT !.registers = RegistersDefault,
                        !.flags = FlagsDefault,
                        !.bus.ops = <<>>]
        low_byte == read(c1, PROGRAM_COUNTER_RESET_VECTOR)
        high_byte == read(low_byte.cpu, PROGRAM_COUNTER_RESET_VECTOR + 1)
    IN IF ~low_byte.ok THEN [cpu |-> low_byte.cpu, result |-> "BusError"]
       ELSE IF ~high_byte.ok THEN [cpu |-> high_byte.cpu, result |-> "BusError"]
       ELSE [cpu |-> [high_byte.cpu EXCEPT
                        !.registers.program_counter =
                            256 * high_byte.value + low_byte.value,
                        !.current_instruction = DEFAULT_INSTRUCTION_VARIANT],
             result |-> "Ok"]

\* reset moving the stack pointer three places down from where it was, as
\* the reset sequence of the hardware does
reset_pulls_stack_pointer(c) ==
    LET c1 == [c EXCEPT !.registers =
                            [RegistersDefault EXCEPT !.stack_pointer =
                                 U8(c.registers.stack_pointer + 253)],
                        !.flags = FlagsDefault,
                        !.bus.ops = <<>>]
        low_byte == read(c1, PROGRAM_COUNTER_RESET_VECTOR)
        high_byte == read(low_byte.cpu, PROGRAM_COUNTER_RESET_VECTOR + 1)
    IN IF ~low_byte.ok THEN [cpu |-> low_byte.cpu, result |-> "BusError"]
       ELSE IF ~high_byte.ok THEN [cpu |-> high_byte.cpu, result |-> "BusError"]
       ELSE [cpu |-> [high_byte.cpu EXCEPT
                        !.registers.program_counter =
                            256 * high_byte.value + low_byte.value,
                        !.current_instruction = DEFAULT_INSTRUCTION_VARIANT,
                        !.cycles = U64Zero],
             result |-> "Ok"]

\* Cpu::reset: the new Cpu and the returned result
reset(c) ==
    LET c1 == [c EXCEPT !.registers = RegistersDefault,
                        !.flags = FlagsDefault,
                        !.bus.ops = <<>>]
        low_byte == read(c1, PROGRAM_COUNTER_RESET_VECTOR)
        high_byte == read(low_byte.cpu, PROGRAM_COUNTER_RESET_VECTOR + 1)
    IN IF ~low_byte.ok THEN [cpu |-> low_byte.cpu, result |-> "BusError"]
       ELSE IF ~high_byte.ok THEN [cpu |-> high_byte.cpu, result |-> "BusError"]
       ELSE [cpu |-> [high_byte.cpu EXCEPT
                        !.registers.program_counter =
                            256 * high_byte.value + low_byte.value,
                        !.current_instruction = DEFAULT_INSTRUCTION_VARIANT,
                        !.cycles = U64Zero],
             result |-> "Ok"]

\* step_idle without the cycle count
step_idle_uncounted(c) ==
    [cpu |-> [c EXCEPT !.page_boundary_cross_penalty = @ - 1],
     result |-> "Ok", branch |-> "idle", uop |-> "", outcome |-> "", n |-> 0]

\* step_idle dropping the rest of the instruction with the penalty
step_idle_ends_instruction(c) ==
    [cpu |-> [c EXCEPT !.page_boundary_cross_penalty = @ - 1,
                       !.current_microcode_iter = <<>>,
                       !.cycles = U64WrappingInc(@)],
     result |-> "Ok", branch |-> "idle", uop |-> "", outcome |-> "", n |-> 0]

\* step(), first branch: a pending penalty tick
step_idle(c) ==
    [cpu |-> [c EXCEPT !.page_boundary_cross_penalty = @ - 1,
                       !.cycles = U64WrappingInc(@)],
     result |-> "Ok", branch |-> "idle", uop |-> "", outcome |-> "", n |-> 0]

\* apply_operation_result with a Break that leaves the cursor where it is
apply_operation_result_break_keeps_cursor(microcode_step, r) ==
    LET c2 == CASE r.result = "PageBoundaryPenalty" ->
                     [r.cpu EXCEPT !.page_boundary_cross_penalty =
                                        U8(@ + r.cycles)]
                [] OTHER -> r.cpu
    IN IF r.result \in {"Continue", "PageBoundaryPenalty", "Break"}
       THEN [cpu |-> [c2 EXCEPT !.cycles = U64WrappingInc(@)],
             result |-> "Ok", branch |-> "micro", uop |-> microcode_step,
             outcome |-> r.result, n |-> r.cycles]
       ELSE [cpu |-> c2, result |-> r.result, branch |-> "micro",
             uop |-> microcode_step, outcome |-> "", n |-> 0]

\* step(), what follows the call of the micro-op: `?` on its result r, the
\* match on the OperationResult, the cycle count
apply_operation_result(microcode_step, r) ==
    LET c2 == CASE r.result = "Continue" -> r.cpu
                [] r.result = "PageBoundaryPenalty" ->
                     [r.cpu EXCEPT !.page_boundary_cross_penalty =
                                        U8(@ + r.cycles)]
                [] r.result = "Break" ->
                     [r.cpu EXCEPT !.current_microcode_iter = <<>>]
                [] OTHER -> r.cpu
    IN IF r.result \in {"Continue", "PageBoundaryPenalty", "Break"}
       THEN [cpu |-> [c2 EXCEPT !.cycles = U64WrappingInc(@)],
             result |-> "Ok", branch |-> "micro", uop |-> microcode_step,
             outcome |-> r.result, n |-> r.cycles]
       ELSE [cpu |-> c2, result |-> r.result, branch |-> "micro",
             uop |-> microcode_step, outcome |-> "", n |-> 0]

\* step_micro calling the micro-op without advancing the iterator
step_micro_cursor_kept(c) ==
    apply_operation_result(
        Head(c.current_microcode_iter),
        Exec(Head(c.current_microcode_iter), c))

\* step(), second branch: the iterator is advanced, then the micro-op it
\* yielded is called
step_micro(c) ==
    apply_operation_result(
        Head(c.current_microcode_iter),
        Exec(Head(c.current_microcode_iter),
             [c EXCEPT !.current_microcode_iter = Tail(@)]))

\* step_fetch running a byte outside the table as the default variant
step_fetch_miss_runs_default(c) ==
    LET f == fetch_operand(c)
        hit == variant_by_opcode(f.value)
        variant == IF hit = 0 THEN DEFAULT_INSTRUCTION_VARIANT ELSE hit
    IN IF ~f.ok
       THEN [cpu |-> f.cpu, result |-> "BusError", branch |-> "fetch",
             uop |-> "", outcome |-> "", n |-> 0]
       ELSE [cpu |-> [f.cpu EXCEPT
                        !.current_instruction = variant,
                        !.current_microcode_iter =
                            INSTRUCTION_VARIANTS[variant].microcode_sequence,
                        !.cycles = U64WrappingInc(@)],
             result |-> "Ok", branch |-> "fetch", uop |-> "",
             outcome |-> "", n |-> 0]

\* step(), third branch: the iterator is exhausted, fetch an opcode
step_fetch(c) ==
    LET f == fetch_operand(c)
        variant == variant_by_opcode(f.value)
    IN IF ~f.ok
       THEN [cpu |-> f.cpu, result |-> "BusError", branch |-> "fetch",
             uop |-> "", outcome |-> "", n |-> 0]
       ELSE IF variant = 0
       THEN [cpu |-> f.cpu, result |-> "UnknownInstruction",
             branch |-> "fetch", uop |-> "", outcome |-> "", n |-> 0]
       ELSE [cpu |-> [f.cpu EXCEPT
                        !.current_instruction = variant,
                        !.current_microcode_iter =
                            INSTRUCTION_VARIANTS[variant].microcode_sequence,
                        !.cycles = U64WrappingInc(@)],
             result |-> "Ok", branch |-> "fetch", uop |-> "",
             outcome |-> "", n |-> 0]

\* Cpu::step: the new Cpu, the returned result and what the call did
step(c) ==
    LET c0 == [c EXCEPT !.bus.ops = <<>>]
    IN IF c0.page_boundary_cross_penalty > 0 THEN step_idle(c0)
       ELSE IF c0.current_microcode_iter # <<>> THEN step_micro(c0)
       ELSE step_fetch(c0)

----------------------------------------------------------------------------
(* Bounds of the model. *)

\* step() calls explored in one run
MaxSteps == 8

\* reset() calls explored in one run
MaxResets == 2

\* step() calls explored in a run of a program of several instructions
MaxProgramSteps == 16

----------------------------------------------------------------------------
(* Initial states: an engine built as test_cpu_builder.rs builds it, at an *)
(* instruction boundary, over a bus whose devices hold a program.          *)

\* a bus with one RAM device registered at address 0
RamBus(size) ==
    <<[start |-> 0, end |-> size - 1, kind |-> "ram",
       start_address |-> 0, size |-> size]>>

\* The programs explored; setup is <<A, X, Y, flags byte>>.  Any opcode byte
\* over RAM everywhere; any opcode byte over a bus with no device above
\* 0x7FFF; the relative branches around page ends and the end of memory;
\* JMP (0x30FF); LDA and NOP over a bus that ends between the two bytes of
\* the reset vector; BRK, PLP and RTI over several stack pointers; JSR
\* 0x9000 with RTS at 0x9000; PHA PLA, PHA PHA PLA PLA and PHA ASL PHA PLA
\* PLA.  data holds the cells of the RAM image beside the three program bytes.
Inputs ==
    [devices : {RamBus(65536)}, origin : {32768},
     opcode : 0..255, operands : {<<66, 18>>, <<255, 18>>, <<0, 128>>},
     setup : {<<80, 1, 255, 36>>, <<0, 255, 1, 227>>},
     stack_pointer : {253}, cycles : {U64Zero},
     data : {<<>>}, budget : {MaxSteps}]
    \cup
    [devices : {RamBus(32768)}, origin : {512},
     opcode : 0..255, operands : {<<255, 128>>},
     setup : {<<80, 1, 255, 36>>},
     stack_pointer : {253}, cycles : {U64Zero},
     data : {<<>>}, budget : {MaxSteps}]
    \cup
    [devices : {RamBus(65536)},
     origin : {32768, 33008, 33022},
     opcode : {16, 48, 80, 112, 144, 176, 208, 240},
     operands : {<<0, 234>>, <<4, 234>>, <<127, 234>>, <<128, 234>>,
                 <<252, 234>>, <<255, 234>>},
     setup : {<<80, 1, 255, 36>>, <<80, 1, 255, 38>>, <<80, 1, 255, 161>>,
              <<80, 1, 255, 227>>},
     stack_pointer : {253}, cycles : {U64Zero},
     data : {<<>>}, budget : {MaxSteps}]
    \cup
    [devices : {RamBus(65536)},
     origin : {65520},
     opcode : {16, 48, 80, 112, 144, 176, 208, 240},
     operands : {<<0, 234>>, <<4, 234>>, <<255, 234>>},
     setup : {<<80, 1, 255, 36>>, <<80, 1, 255, 227>>},
     stack_pointer : {253}, cycles : {<<65534, 65535, 65535, 65535>>},
     data : {<<>>}, budget : {MaxSteps}]
    \cup
    [devices : {RamBus(65536)}, origin : {32768},
     opcode : {108}, operands : {<<255, 48>>},
     setup : {<<80, 1, 255, 36>>},
     stack_pointer : {253}, cycles : {U64Zero},
     data : {12543 :> 64 @@ 12288 :> 128 @@ 12544 :> 80},
     budget : {MaxSteps}]
    \cup
    [devices : {RamBus(65533)}, origin : {32768},
     opcode : {169, 234}, operands : {<<66, 18>>},
     setup : {<<80, 1, 255, 36>>},
     stack_pointer : {253}, cycles : {U64Zero},
     data : {<<>>}, budget : {MaxSteps}]
    \cup
    [devices : {RamBus(65536)}, origin : {32768},
     opcode : {0, 40, 64}, operands : {<<66, 18>>},
     setup : {<<80, 1, 255, 36>>, <<0, 255, 1, 227>>},
     stack_pointer : {253, 255, 0, 1, 16}, cycles : {U64Zero},
     data : {<<>>, 510 :> 35 @@ 511 :> 52 @@ 256 :> 50},
     budget : {MaxSteps}]
    \cup
    [devices : {RamBus(65536)}, origin : {32768, 33022},
     opcode : {32}, operands : {<<0, 144>>},
     setup : {<<80, 1, 255, 36>>},
     stack_pointer : {253, 0, 1}, cycles : {U64Zero},
     data : {36864 :> 96}, budget : {MaxProgramSteps}]
    \cup
    [devices : {RamBus(65536)}, origin : {32768},
     opcode : {72}, operands : {<<104, 234>>},
     setup : {<<80, 1, 255, 36>>, <<0, 1, 255, 36>>, <<128, 1, 255, 36>>},
     stack_pointer : {253, 255, 0, 1}, cycles : {U64Zero},
     data : {<<>>}, budget : {MaxProgramSteps}]
    \cup
    [devices : {RamBus(65536)}, origin : {32768},
     opcode : {72}, operands : {<<72, 104>>},
     setup : {<<80, 1, 255, 36>>, <<0, 1, 255, 36>>, <<128, 1, 255, 36>>},
     stack_pointer : {253, 255, 0, 1}, cycles : {U64Zero},
     data : {32771 :> 104}, budget : {MaxProgramSteps}]
    \cup
    [devices : {RamBus(65536)}, origin : {32768},
     opcode : {72}, operands : {<<10, 72>>},
     setup : {<<80, 1, 255, 36>>, <<129, 1, 255, 36>>},
     stack_pointer : {253, 0, 1}, cycles : {U64Zero},
     data : {32771 :> 104 @@ 32772 :> 104}, budget : {MaxProgramSteps}]

\* CpuBuilder::build over devices that hold the program and the reset vector
Build(in) ==
    LET image ==
            [a \in {in.origin, in.origin + 1, in.origin + 2,
                    PROGRAM_COUNTER_RESET_VECTOR,
                    PROGRAM_COUNTER_RESET_VECTOR + 1} |->
                CASE a = in.origin -> in.opcode
                  [] a = in.origin + 1 -> in.operands[1]
                  [] a = in.origin + 2 -> in.operands[2]
                  [] a = PROGRAM_COUNTER_RESET_VECTOR -> LowByte(in.origin)
                  [] OTHER -> HighByte(in.origin)]
    IN [CpuNew([devices |-> in.devices, memory |-> in.data @@ image,
                ops |-> <<>>])
           EXCEPT !.registers = [accumulator |-> in.setup[1],
                                 x |-> in.setup[2], y |-> in.setup[3],
                                 program_counter |-> in.origin,
                                 stack_pointer |-> in.stack_pointer],
                  !.flags = FlagsTryFrom(in.setup[4]),
                  !.cycles = in.cycles]

Init ==
    \E in \in Inputs :
        /\ cpu = Build(in)
        /\ last = [call |-> "new", result |-> "Ok", branch |-> "",
                   uop |-> "", outcome |-> "", n |-> 0, after |-> ""]
        /\ probe = [calls |-> 0, resets |-> 0, ticks |-> 0, clean |-> FALSE,
                    at |-> Build(in), idle |-> 0, owed |-> 0,
                    since_reset |-> -1, cycles0 |-> in.cycles,
                    budget |-> in.budget, trail |-> <<>>,
                    twin |-> Build(in), twin_result |-> "Ok"]

----------------------------------------------------------------------------
(* Actions: the two public operations of the engine. *)

\* one call of step().  probe.twin is a second engine that takes the same
\* calls: at every opcode fetch it is the engine itself with every bit of
\* temp_address and temp_data inverted.
Step ==
    /\ probe.calls < probe.budget
    /\ \E twin \in {IF cpu.page_boundary_cross_penalty = 0
                       /\ cpu.current_microcode_iter = <<>>
                    THEN [cpu EXCEPT !.temp_address = 65535 - @,
                                     !.temp_data = 255 - @]
                    ELSE probe.twin} :
       \E engine \in {<<cpu, twin>>} :
       \E stepped \in {[e \in {1, 2} |-> step(engine[e])]} :
       \E s \in {stepped[1]} :
       \E t \in {stepped[2]} :
       LET ok == s.result = "Ok"
       IN /\ cpu' = s.cpu
          /\ last' = [call |-> "step", result |-> s.result,
                      branch |-> s.branch, uop |-> s.uop,
                      outcome |-> s.outcome, n |-> s.n,
                      after |-> last.call]
          /\ probe' = [probe EXCEPT
                !.calls = @ + 1,
                !.ticks = IF s.branch = "fetch"
                          THEN (IF ok THEN 1 ELSE 0)
                          ELSE (IF ok THEN @ + 1 ELSE @),
                !.clean = IF s.branch = "fetch" THEN ok ELSE @ /\ ok,
                !.at = IF s.branch = "fetch" /\ ok THEN cpu ELSE @,
                !.idle = IF s.branch = "idle" THEN @ + 1 ELSE 0,
                !.owed = IF s.branch = "idle" THEN @
                         ELSE IF s.outcome = "PageBoundaryPenalty" THEN s.n
                         ELSE 0,
                !.since_reset = IF ok /\ @ >= 0 THEN @ + 1 ELSE @,
                !.trail = IF ~ok THEN <<>>
                          ELSE IF s.branch = "fetch" THEN Append(@, cpu)
                          ELSE @,
                !.twin = t.cpu,
                !.twin_result = t.result]

\* one call of reset()
Reset ==
    /\ probe.resets < MaxResets
    /\ \E engine \in {<<cpu, probe.twin>>} :
       \E restarted \in {[e \in {1, 2} |-> reset(engine[e])]} :
       \E r \in {restarted[1]} :
       \E t \in {restarted[2]} :
          /\ cpu' = r.cpu
          /\ last' = [call |-> "reset", result |-> r.result, branch |-> "",
                      uop |-> "", outcome |-> "", n |-> 0,
                      after |-> last.call]
          /\ probe' = [probe EXCEPT
                !.resets = @ + 1,
                !.clean = FALSE,
                !.since_reset = IF r.result = "Ok" THEN 0 ELSE -1,
                !.trail = <<>>,
                !.twin = t.cpu,
                !.twin_result = t.result]

Next == Step \/ Reset

Spec == Init /\ [][Next]_vars


----------------------------------------------------------------------------
(* The conversions between Flags and the status byte, on their own: a      *)
(* byte or a Flags value is chosen, then try_from and into are applied to  *)
(* what the previous conversion left.                                      *)

\* conversions applied in one run
MaxConversions == 2

\* struct Flags: eight public booleans
AllFlags ==
    [carry : BOOLEAN, zero : BOOLEAN, interrupt_disable : BOOLEAN,
     decimal_mode : BOOLEAN, break_command : BOOLEAN, unused : BOOLEAN,
     overflow : BOOLEAN, negative : BOOLEAN]

\* a byte to parse, or a Flags value to pack
FlagsInit ==
    \E in \in [byte : 0..255, flags : {FlagsDefault}]
               \cup [byte : {0}, flags : AllFlags] :
        /\ cpu = [CpuNew([devices |-> <<>>, memory |-> <<>>, ops |-> <<>>])
                     EXCEPT !.flags = in.flags]
        /\ last = [call |-> "new", result |-> "Ok"]
        /\ probe = [byte |-> in.byte, byte0 |-> in.byte, flags0 |-> in.flags,
                    trace |-> <<>>]

\* cpu.flags = Flags::try_from(byte)?
TryFromCall ==
    /\ Len(probe.trace) < MaxConversions
    /\ cpu' = IF FlagsTryFromOk(probe.byte)
              THEN [cpu EXCEPT !.flags = FlagsTryFrom(probe.byte)]
              ELSE cpu
    /\ last' = [call |-> "try_from",
                result |-> IF FlagsTryFromOk(probe.byte) THEN "Ok" ELSE "Err"]
    /\ probe' = [probe EXCEPT !.trace = Append(@, "try_from")]

\* byte = cpu.flags.into()
IntoCall ==
    /\ Len(probe.trace) < MaxConversions
    /\ cpu' = cpu
    /\ last' = [call |-> "into", result |-> "Ok"]
    /\ probe' = [probe EXCEPT !.byte = FlagsIntoU8(cpu.flags),
                              !.trace = Append(@, "into")]

FlagsNext == TryFromCall \/ IntoCall

FlagsSpec == FlagsInit /\ [][FlagsNext]_vars

----------------------------------------------------------------------------
(* The adder and the subtractor on their own: an accumulator, an operand,  *)
(* Carry and Decimal are chosen, then alu::add and alu::sub are applied to *)
(* the accumulator and the flags the previous operation left, as the       *)
(* micro-ops of ADC and SBC apply them.                                    *)

\* ALU operations applied in one run
MaxAluCalls == 2

\* every pair of bytes in binary mode; in decimal mode every pair of packed
\* BCD bytes (both nibbles in 0..9)
AluInit ==
    \E in \in
        [a : 0..255, operand : 0..255, carry : BOOLEAN,
         decimal_mode : {FALSE}]
        \cup [a : {16 * h + l : h \in 0..9, l \in 0..9},
              operand : {16 * h + l : h \in 0..9, l \in 0..9},
              carry : BOOLEAN, decimal_mode : {TRUE}] :
        /\ cpu = [CpuNew([devices |-> <<>>, memory |-> <<>>, ops |-> <<>>])
                     EXCEPT !.registers.accumulator = in.a,
                            !.temp_data = in.operand,
                            !.flags.carry = in.carry,
                            !.flags.decimal_mode = in.decimal_mode]
        /\ last = [call |-> "new", result |-> "Ok", carry |-> in.carry]
        /\ probe = [a0 |-> in.a, carry0 |-> in.carry, trace |-> <<>>]

\* accumulator = alu::add(accumulator, temp_data, &mut flags)?
AddCall ==
    /\ Len(probe.trace) < MaxAluCalls
    /\ \E v \in {alu_add(cpu.registers.accumulator, cpu.temp_data, cpu.flags)} :
          cpu' = [cpu EXCEPT !.registers.accumulator = v.value,
                             !.flags = v.flags]
    /\ last' = [call |-> "add", result |-> "Ok", carry |-> cpu.flags.carry]
    /\ probe' = [probe EXCEPT !.trace = Append(@, "add")]

\* accumulator = alu::sub(accumulator, temp_data, &mut flags)?
SubCall ==
    /\ Len(probe.trace) < MaxAluCalls
    /\ \E v \in {alu_sub(cpu.registers.accumulator, cpu.temp_data, cpu.flags)} :
          cpu' = [cpu EXCEPT !.registers.accumulator = v.value,
                             !.flags = v.flags]
    /\ last' = [call |-> "sub", result |-> "Ok", carry |-> cpu.flags.carry]
    /\ probe' = [probe EXCEPT !.trace = Append(@, "sub")]

AluNext == AddCall \/ SubCall

AluSpec == AluInit /\ [][AluNext]_vars

----------------------------------------------------------------------------
(* The bus router on its own: devices are registered on an empty           *)
(* BusController and addresses are read and written through it.            *)

\* register_device calls in one run
MaxRegistrations == 3

\* read and write calls in one run
MaxAccesses == 1

BusInit ==
    /\ cpu = CpuNew([devices |-> <<>>, memory |-> <<>>, ops |-> <<>>])
    /\ last = [call |-> "new", result |-> "Ok", start |-> 0, end |-> 0,
               before |-> <<>>]
    /\ probe = [registrations |-> 0, accesses |-> 0]

\* bus.register_device(start, end, ram): ranges that are apart, that touch,
\* that overlap at one end, that lie inside and that contain one another
RegisterCall ==
    /\ probe.registrations < MaxRegistrations
    /\ \E range \in {<<0, 4095>>, <<4096, 16383>>, <<8192, 12287>>,
                     <<9216, 10239>>, <<10240, 14335>>, <<12287, 12287>>,
                     <<0, 65535>>} :
       \E r \in {register_device(cpu.bus, range[1], range[2])} :
          /\ cpu' = [cpu EXCEPT !.bus = r.bus]
          /\ last' = [call |-> "register_device", result |-> r.result,
                      start |-> range[1], end |-> range[2],
                      before |-> cpu.bus.devices]
    /\ probe' = [probe EXCEPT !.registrations = @ + 1]

\* bus.read(address) or bus.write(address, 0xAB)
AccessCall ==
    /\ probe.accesses < MaxAccesses
    /\ \E address \in {2048, 8192, 9728, 12287, 14336, 32768, 65535} :
       \E r \in {BusRead([cpu.bus EXCEPT !.ops = <<>>], address),
                 BusWrite([cpu.bus EXCEPT !.ops = <<>>], address, 171)} :
          /\ cpu' = [cpu EXCEPT !.bus = r.bus]
          /\ last' = [call |-> r.bus.ops[1][1],
                      result |-> IF r.ok THEN "Ok" ELSE r.error,
                      start |-> address, end |-> address,
                      before |-> cpu.bus.devices]
    /\ probe' = [probe EXCEPT !.accesses = @ + 1]

BusNext == RegisterCall \/ AccessCall

BusSpec == BusInit /\ [][BusNext]_vars
----------------------------------------------------------------------------
(* Vocabulary of the properties. *)

Cursor == cpu.current_microcode_iter

Penalty == cpu.page_boundary_cross_penalty

PC == cpu.registers.program_counter

\* the variant installed by the latest opcode fetch
Cur == INSTRUCTION_VARIANTS[cpu.current_instruction]

\* the latest call was a step() that returned Ok
StepOk == last.call = "step" /\ last.result = "Ok"

\* the instruction fetched last has run undisturbed (no error, no reset) so far
Running == StepOk /\ probe.clean

\* ... and has just completed
InstructionDone == Running /\ Cursor = <<>> /\ Penalty = 0

\* the engine as it was when that instruction's opcode was fetched
StartPC == probe.at.registers.program_counter

Operand1 == MemoryAt(probe.at.bus, U16(StartPC + 1))

Operand2 == MemoryAt(probe.at.bus, U16(StartPC + 2))

AbsoluteBase == Operand1 + 256 * Operand2

IndexOf(mode) ==
    IF mode \in {"AbsoluteX", "ZeroPageX", "IndirectX"}
    THEN probe.at.registers.x ELSE probe.at.registers.y

PageCrossed(base, index) == HighByte(base) # HighByte(U16(base + index))

U64Of(k) == <<k, 0, 0, 0>>

KnownOpcodes ==
    {INSTRUCTION_VARIANTS[i].opcode : i \in 1..Len(INSTRUCTION_VARIANTS)}

----------------------------------------------------------------------------
(* C1 *)

C1_Transition ==
    last'.call = "step" =>
        /\ Penalty > 0 =>
              /\ last'.branch = "idle"
              /\ Penalty' = Penalty - 1
              /\ Cursor' = Cursor
        /\ (Penalty = 0 /\ Cursor = <<>>) =>
              /\ last'.branch = "fetch"
              /\ last'.result = "Ok" =>
                    /\ MemoryAt(cpu.bus, PC) \in KnownOpcodes
                    /\ Cur'.opcode = MemoryAt(cpu.bus, PC)
                    /\ Cursor' = Cur'.microcode_sequence
                    /\ Penalty' = 0
        /\ (Penalty = 0 /\ Cursor # <<>>) =>
              /\ last'.branch = "micro"
              /\ last'.uop = Head(Cursor)
              /\ last'.result = "Ok" =>
                    /\ Cursor' = IF last'.outcome = "Break" THEN <<>>
                                 ELSE Tail(Cursor)
                    /\ Penalty' = IF last'.outcome = "PageBoundaryPenalty"
                                  THEN last'.n ELSE 0
        /\ last'.branch # "idle" => probe.idle = probe.owed

\* C1: step() is the instruction state machine: with an empty cursor (and no
\* pending penalty) it fetches the opcode at PC and installs that opcode's
\* micro-op sequence; otherwise it runs exactly the next micro-op, in order,
\* so that the cursor is empty after the last one; a Break outcome empties the
\* cursor at once; and after a PageBoundaryPenalty(n) outcome exactly n idle
\* calls precede the next micro-op or opcode fetch.
C1_StepStateMachine == [][C1_Transition]_vars

\* an idle tick has just been served in the middle of an instruction
C1_Witness ==
    /\ StepOk /\ last.branch = "idle"
    /\ probe.owed = 1 /\ probe.idle = 1
    /\ Cursor # <<>>

----------------------------------------------------------------------------
(* C2 *)

----------------------------------------------------------------------------
(* C3 *)

\* the cycle counts of the 6502 reference, by instruction and addressing mode
DocumentedBaseCycles(v) ==
    CASE v.instruction \in {"LDA", "LDX", "LDY", "ADC", "SBC", "AND", "ORA",
                            "EOR", "CMP", "CPX", "CPY", "BIT"} ->
            (CASE v.mode = "Immediate" -> 2
               [] v.mode = "ZeroPage" -> 3
               [] v.mode \in {"ZeroPageX", "ZeroPageY", "Absolute",
                              "AbsoluteX", "AbsoluteY"} -> 4
               [] v.mode = "IndirectX" -> 6
               [] v.mode = "IndirectY" -> 5)
      [] v.instruction \in {"STA", "STX", "STY"} ->
            (CASE v.mode = "ZeroPage" -> 3
               [] v.mode \in {"ZeroPageX", "ZeroPageY", "Absolute"} -> 4
               [] v.mode \in {"AbsoluteX", "AbsoluteY"} -> 5
               [] v.mode \in {"IndirectX", "IndirectY"} -> 6)
      [] v.instruction \in {"ASL", "LSR", "ROL", "ROR", "INC", "DEC"} ->
            (CASE v.mode = "Accumulator" -> 2
               [] v.mode = "ZeroPage" -> 5
               [] v.mode \in {"ZeroPageX", "Absolute"} -> 6
               [] v.mode = "AbsoluteX" -> 7)
      [] v.instruction = "JMP" -> (IF v.mode = "Absolute" THEN 3 ELSE 5)
      [] v.instruction \in {"JSR", "RTS", "RTI"} -> 6
      [] v.instruction = "BRK" -> 7
      [] v.instruction \in {"PHA", "PHP"} -> 3
      [] v.instruction \in {"PLA", "PLP"} -> 4
      [] OTHER -> 2

\* the flag condition of a branch, by the 6502 reference
BranchTaken(v, flags) ==
    CASE v.instruction = "BCC" -> ~flags.carry
      [] v.instruction = "BCS" -> flags.carry
      [] v.instruction = "BEQ" -> flags.zero
      [] v.instruction = "BNE" -> ~flags.zero
      [] v.instruction = "BMI" -> flags.negative
      [] v.instruction = "BPL" -> ~flags.negative
      [] v.instruction = "BVC" -> ~flags.overflow
      [] v.instruction = "BVS" -> flags.overflow

BranchTarget == U16(StartPC + 2 + SignExtend8(Operand1) + 65536)

\* a taken branch crosses a page when its target is not in the page of the
\* address that follows the branch instruction
BranchCrossed == HighByte(U16(StartPC + 2)) # HighByte(BranchTarget)

\* the base address (zp),Y reads from its zero-page pointer
IndirectYBase ==
    MemoryAt(probe.at.bus, Operand1)
    + 256 * MemoryAt(probe.at.bus, (Operand1 + 1) % 256)

DocumentedExtraCycles(v) ==
    CASE v.mode = "Relative" ->
            (IF ~BranchTaken(v, probe.at.flags) THEN 0
             ELSE IF BranchCrossed THEN 2 ELSE 1)
      [] v.instruction \in {"LDA", "LDX", "LDY", "ADC", "SBC", "AND", "ORA",
                            "EOR", "CMP"}
         /\ v.mode \in {"AbsoluteX", "AbsoluteY", "IndirectY"} ->
            (IF PageCrossed(IF v.mode = "IndirectY" THEN IndirectYBase
                            ELSE AbsoluteBase, IndexOf(v.mode))
             THEN 1 ELSE 0)
      [] OTHER -> 0

\* C3: for every instruction variant, the number of step() calls from its
\* opcode fetch until the cursor is empty again equals the documented base
\* cycle count of the opcode plus the documented page-cross and branch-taken
\* extra ticks.
C3_DocumentedCycles ==
    InstructionDone =>
        probe.ticks = DocumentedBaseCycles(Cur) + DocumentedExtraCycles(Cur)

----------------------------------------------------------------------------
(* C4 *)

\* the byte the latest opcode fetch read (the fetch moved PC past it)
FetchedByte == MemoryAt(cpu.bus, U16(PC + 65535))

\* C4: the opcode lookup is one-to-one on exactly 151 opcode bytes: no two
\* table entries share an opcode byte, a fetch of one of those bytes selects
\* the entry whose opcode field is that byte, and a fetch of any of the other
\* 105 byte values finds no variant.
C4_LookupOneToOne ==
    /\ Len(INSTRUCTION_VARIANTS) = 151
    /\ Cardinality(KnownOpcodes) = 151
    /\ Cardinality((0..255) \ KnownOpcodes) = 105
    /\ (last.call = "step" /\ last.branch = "fetch"
        /\ last.result # "BusError") =>
            IF FetchedByte \in KnownOpcodes
            THEN last.result = "Ok" /\ Cur.opcode = FetchedByte
            ELSE last.result = "UnknownInstruction"

\* a fetch has just found no variant for its byte
C4_Witness ==
    /\ last.call = "step" /\ last.branch = "fetch"
    /\ last.result = "UnknownInstruction"
    /\ FetchedByte \notin KnownOpcodes

----------------------------------------------------------------------------
(* C5 *)

\* C5: every Absolute,X and Absolute,Y read instruction (LDA, LDX, LDY, ADC,
\* SBC, AND, CMP) takes exactly one extra tick when the high byte of base
\* differs from the high byte of base + index, and no extra tick otherwise.
C5_IndexedReadPenalty ==
    (/\ InstructionDone
     /\ Cur.instruction \in {"LDA", "LDX", "LDY", "ADC", "SBC", "AND", "CMP"}
     /\ Cur.mode \in {"AbsoluteX", "AbsoluteY"}) =>
        probe.ticks = IF PageCrossed(AbsoluteBase, IndexOf(Cur.mode))
                      THEN 5 ELSE 4

----------------------------------------------------------------------------
(* C6 *)

C6_Case ==
    \/ Cur.instruction = "STA"
       /\ Cur.mode \in {"AbsoluteX", "AbsoluteY", "IndirectY"}
    \/ Cur.instruction \in {"INC", "ASL", "ROR"} /\ Cur.mode = "AbsoluteX"

C6_FixedTicks ==
    IF Cur.instruction = "STA"
    THEN (IF Cur.mode = "IndirectY" THEN 6 ELSE 5)
    ELSE 7

----------------------------------------------------------------------------
(* C7 *)

\* C7: a branch at address P with offset byte o takes 2 ticks and ends with
\* PC = P + 2 when its flag condition is false; when the condition is true it
\* ends with PC = P + 2 + sext8(o) (mod 2^16), after 3 ticks if no page is
\* crossed and after 4 ticks if one is (the target lies outside the page of
\* P + 2).  No flag is modified by a branch.
C7_Branches ==
    (Running /\ Cur.mode = "Relative") =>
        /\ cpu.flags = probe.at.flags
        /\ InstructionDone =>
              IF ~BranchTaken(Cur, probe.at.flags)
              THEN probe.ticks = 2 /\ PC = U16(StartPC + 2)
              ELSE /\ PC = BranchTarget
                   /\ probe.ticks = IF BranchCrossed THEN 4 ELSE 3

\* a taken BMI that crossed a page backwards has completed
C7_Witness ==
    /\ InstructionDone
    /\ Cur.instruction = "BMI"
    /\ BranchTaken(Cur, probe.at.flags) /\ BranchCrossed
    /\ PC < StartPC

----------------------------------------------------------------------------
(* C8 *)

\* a taken BEQ at 0x80FE with offset +4 has completed
C8_Scenario ==
    /\ InstructionDone
    /\ Cur.instruction = "BEQ"
    /\ StartPC = 33022 /\ Operand1 = 4
    /\ probe.at.flags.zero

\* C8 as stated: a taken BEQ at 0x80FE with offset +4 ends with PC = 0x8104
\* and takes 4 ticks, the target being in another page than the branch
\* instruction's own address.
C8_TakenBeqFourTicks ==
    C8_Scenario => PC = 33028 /\ probe.ticks = 4

\* C8, amended: a taken BEQ at 0x80FE with offset +4 ends with PC = 0x8104
\* and takes 3 ticks: the page-cross tick of a taken BEQ is charged when the
\* target lies in a different page from the address that follows the branch
\* instruction (here 0x8100, the page of the target), and only then.
C8_TakenBeqThreeTicks ==
    /\ C8_Scenario => PC = 33028 /\ probe.ticks = 3
    /\ (InstructionDone /\ Cur.instruction = "BEQ" /\ probe.at.flags.zero) =>
          probe.ticks = IF HighByte(U16(StartPC + 2)) # HighByte(PC)
                        THEN 4 ELSE 3

C8_Witness == C8_Scenario /\ probe.calls = 3

----------------------------------------------------------------------------
(* C9 *)

\* the byte the latest step() read from the bus
OperandValue ==
    MemoryAt(cpu.bus, cpu.bus.ops[Len(cpu.bus.ops)][2])

\* C9: after any LDA / LDX / LDY variant executed on operand value v, the
\* named register equals v, Zero = (v = 0), Negative = bit 7 of v, and the
\* other two data registers are unchanged; LDA #0x42 at 0x8000 leaves A = 0x42
\* and PC = 0x8002 after 2 ticks.
C9_LoadsOwnRegister ==
    (InstructionDone /\ Cur.instruction \in {"LDA", "LDX", "LDY"}) =>
        LET v == OperandValue
            was == probe.at.registers
            now == cpu.registers
        IN /\ now.accumulator = IF Cur.instruction = "LDA" THEN v
                                ELSE was.accumulator
           /\ now.x = IF Cur.instruction = "LDX" THEN v ELSE was.x
           /\ now.y = IF Cur.instruction = "LDY" THEN v ELSE was.y
           /\ cpu.flags.zero = (v = 0)
           /\ cpu.flags.negative = (v >= 128)
           /\ (Cur.mode = "Immediate" /\ StartPC = 32768 /\ Operand1 = 66
               /\ Cur.instruction = "LDA") =>
                 now.accumulator = 66 /\ PC = 32770 /\ probe.ticks = 2

----------------------------------------------------------------------------
(* C10 *)

\* C10: JMP absolute loads PC from its 16-bit little-endian operand: after
\* the instruction completes PC = (hi << 8) | lo.
C10_JmpAbsolute ==
    (InstructionDone /\ Cur.instruction = "JMP" /\ Cur.mode = "Absolute") =>
        PC = AbsoluteBase


----------------------------------------------------------------------------
(* C11 *)

\* the byte a cell of the bus held when the latest instruction began
CellAtStart(address) == MemoryAt(probe.at.bus, address)

\* C11: JMP indirect through pointer p sets PC to
\* mem[p] | (mem[(p & 0xFF00) | ((p + 1) & 0x00FF)] << 8), the high byte of
\* the target coming from the pointer's own page; with mem[0x30FF] = 0x40,
\* mem[0x3000] = 0x80 and JMP (0x30FF) at 0x8000, PC ends at 0x8040.
C11_JmpIndirect ==
    (InstructionDone /\ Cur.instruction = "JMP" /\ Cur.mode = "Indirect") =>
        LET p == AbsoluteBase
            wrapped == 256 * HighByte(p) + LowByte(p + 1)
        IN /\ PC = CellAtStart(p) + 256 * CellAtStart(wrapped)
           /\ (StartPC = 32768 /\ p = 12543 /\ CellAtStart(12543) = 64
               /\ CellAtStart(12288) = 128) => PC = 32832

----------------------------------------------------------------------------
(* C12 *)

\* the engine as it was when the instruction before the latest one began
\* (both fetched in one undisturbed run)
Before == probe.trail[Len(probe.trail) - 1]

\* the byte a cell of the bus holds now
CellNow(address) == MemoryAt(cpu.bus, address)

\* an RTS has just completed, fetched at the target of the JSR that ran
\* just before it
C12_Case ==
    /\ InstructionDone /\ Cur.instruction = "RTS"
    /\ Len(probe.trail) >= 2
    /\ LET P == Before.registers.program_counter
       IN /\ MemoryAt(Before.bus, P) = 32
          /\ StartPC = MemoryAt(Before.bus, U16(P + 1))
                       + 256 * MemoryAt(Before.bus, U16(P + 2))

\* C12: JSR/RTS round trip: for a JSR at P (stack pointer S0) targeting T
\* with an RTS at T, after both complete PC = P + 3, S = S0, and the bytes at
\* 0x0100 + S0 and 0x0100 + ((S0 - 1) mod 256) are the high and the low byte
\* of P + 2.
C12_JsrRtsRoundTrip ==
    C12_Case =>
        LET P == Before.registers.program_counter
            S0 == Before.registers.stack_pointer
        IN /\ PC = U16(P + 3)
           /\ cpu.registers.stack_pointer = S0
           /\ CellNow(256 + S0) = HighByte(U16(P + 2))
           /\ CellNow(256 + U8(S0 + 255)) = LowByte(U16(P + 2))

\* the round trip from 0x80FE with the stack pointer at 0x00: the two pushes
\* wrap the stack pointer and the return address 0x8100 is in the next page
C12_Witness ==
    /\ C12_Case
    /\ Before.registers.program_counter = 33022
    /\ Before.registers.stack_pointer = 0
    /\ PC = 33025

----------------------------------------------------------------------------
(* C13 *)

\* the stack cell i places below the stack pointer the instruction began with
StackCellBelow(i) == 256 + U8(probe.at.registers.stack_pointer + 256 - i)

\* what BRK leaves on the stack
C13_Pushed ==
    /\ cpu.registers.stack_pointer
           = U8(probe.at.registers.stack_pointer + 253)
    /\ CellNow(StackCellBelow(0)) = HighByte(U16(StartPC + 2))
    /\ CellNow(StackCellBelow(1)) = LowByte(U16(StartPC + 2))
    /\ CellNow(StackCellBelow(2))
           = FlagsIntoU8([probe.at.flags EXCEPT !.break_command = TRUE])

\* C13: BRK with its opcode at P pushes, in this order, the high byte of the
\* return address, its low byte and the packed flags with Break = 1 (S
\* decreases by 3, wrapping), and when it completes PC is the little-endian
\* word stored at 0xFFFE/0xFFFF.
C13_Brk ==
    (InstructionDone /\ Cur.instruction = "BRK") =>
        /\ C13_Pushed
        /\ PC = CellAtStart(65534) + 256 * CellAtStart(65535)

----------------------------------------------------------------------------
(* C14 *)

\* the stack cell i places above the stack pointer the instruction began with
StackCellAbove(i) == 256 + U8(probe.at.registers.stack_pointer + i)

\* C14: RTI pulls three bytes in the order flags, PC low, PC high (S
\* increases by 3, wrapping): after it completes the flags are the unpacking
\* of the first byte pulled and PC = (high << 8) | low, with no adjustment.
C14_Rti ==
    (InstructionDone /\ Cur.instruction = "RTI") =>
        /\ cpu.registers.stack_pointer
               = U8(probe.at.registers.stack_pointer + 3)
        /\ FlagsTryFromOk(CellAtStart(StackCellAbove(1)))
        /\ cpu.flags = FlagsTryFrom(CellAtStart(StackCellAbove(1)))
        /\ PC = CellAtStart(StackCellAbove(2))
                + 256 * CellAtStart(StackCellAbove(3))

\* RTI from S = 0xFD: flags 0x23 pulled at 0x01FE, low byte 0x34 at 0x01FF
\* and, the stack pointer wrapping, high byte 0x32 at 0x0100
C14_Witness ==
    /\ InstructionDone /\ Cur.instruction = "RTI"
    /\ probe.at.registers.stack_pointer = 253
    /\ cpu.registers.stack_pointer = 0
    /\ PC = 12852
    /\ cpu.flags.carry /\ cpu.flags.zero /\ ~cpu.flags.negative

----------------------------------------------------------------------------
(* C15 *)

\* the opcode of the i-th instruction of the undisturbed run
OpcodeAt(i) ==
    MemoryAt(probe.trail[i].bus, probe.trail[i].registers.program_counter)

\* the accumulator when the i-th instruction of the run had completed
AccumulatorAfter(i) ==
    IF i < Len(probe.trail) THEN probe.trail[i + 1].registers.accumulator
    ELSE cpu.registers.accumulator

IsPush(i) == OpcodeAt(i) = 72

IsPull(i) == OpcodeAt(i) = 104

\* the positions of the PHA and of the PLA instructions of the run, in order
PushIndexes == SelectSeq([i \in 1..Len(probe.trail) |-> i], IsPush)

PullIndexes == SelectSeq([i \in 1..Len(probe.trail) |-> i], IsPull)

\* the bytes pushed and the bytes pulled, in the order of execution
Pushed ==
    [k \in 1..Len(PushIndexes) |->
        probe.trail[PushIndexes[k]].registers.accumulator]

Pulled == [k \in 1..Len(PullIndexes) |-> AccumulatorAfter(PullIndexes[k])]

\* a run of n PHA and then n PLA has just completed (between them only
\* ASL A, which leaves the stack alone)
C15_Case ==
    /\ InstructionDone /\ Cur.instruction = "PLA"
    /\ Len(PushIndexes) >= 1
    /\ Len(PushIndexes) = Len(PullIndexes)
    /\ PushIndexes[Len(PushIndexes)] < PullIndexes[1]
    /\ \A i \in 1..Len(probe.trail) : OpcodeAt(i) \in {72, 104, 10}

\* C15: stack discipline: for every initial S, wrapping included, after n PHA
\* followed by n PLA the final S is the initial S and the bytes pulled are
\* the bytes pushed in LIFO order; a push writes at 0x0100 + S and then
\* decrements S, a pull increments S and then reads at 0x0100 + S.
C15_StackDiscipline ==
    /\ C15_Case =>
          /\ cpu.registers.stack_pointer
                 = probe.trail[1].registers.stack_pointer
          /\ \A k \in 1..Len(Pulled) :
                 Pulled[k] = Pushed[Len(Pushed) + 1 - k]
    /\ (InstructionDone /\ Cur.instruction = "PHA") =>
          /\ CellNow(StackCellBelow(0)) = probe.at.registers.accumulator
          /\ cpu.registers.stack_pointer
                 = U8(probe.at.registers.stack_pointer + 255)
    /\ (InstructionDone /\ Cur.instruction = "PLA") =>
          /\ cpu.registers.stack_pointer
                 = U8(probe.at.registers.stack_pointer + 1)
          /\ cpu.registers.accumulator = CellAtStart(StackCellAbove(1))

\* PHA PHA PLA PLA from S = 0x00: the pushes wrap the stack pointer to 0xFE
\* and the pulls bring it back
C15_Witness ==
    /\ C15_Case
    /\ Len(probe.trail) = 4 /\ Len(Pushed) = 2
    /\ probe.trail[1].registers.stack_pointer = 0
    /\ probe.trail[3].registers.stack_pointer = 254
    /\ cpu.registers.stack_pointer = 0

----------------------------------------------------------------------------
(* C16 *)

\* the latest call was a reset() that returned Ok
ResetOk == last.call = "reset" /\ last.result = "Ok"

\* C16: a successful reset(), called in any engine state, leaves
\* A = X = Y = 0, S = 0xFD, the flags at their defaults (InterruptDisable and
\* Unused set, all others clear), PC = mem[0xFFFC] | (mem[0xFFFD] << 8) and
\* the cycle counter 0; a bus error on either vector read is returned as
\* BusError.
C16_Reset ==
    last.call = "reset" =>
        /\ last.result \in {"Ok", "BusError"}
        /\ last.result = "BusError" <=>
               (DeviceFor(cpu.bus, 65532) = 0 \/ DeviceFor(cpu.bus, 65533) = 0)
        /\ last.result = "Ok" =>
               /\ cpu.registers =
                      [accumulator |-> 0, x |-> 0, y |-> 0,
                       stack_pointer |-> 253,
                       program_counter |->
                           CellNow(65532) + 256 * CellNow(65533)]
               /\ cpu.flags =
                      [carry |-> FALSE, zero |-> FALSE,
                       interrupt_disable |-> TRUE, decimal_mode |-> FALSE,
                       break_command |-> FALSE, unused |-> TRUE,
                       overflow |-> FALSE, negative |-> FALSE]
               /\ cpu.cycles = U64Zero

\* a reset in the middle of an instruction, after ticks were counted and the
\* registers had left their defaults
C16_Witness ==
    /\ ResetOk /\ last.after = "step"
    /\ Cursor # <<>>
    /\ probe.calls >= 3
    /\ probe.at.registers.accumulator = 80
    /\ probe.at.registers.program_counter = 33022
    /\ PC = 33022

----------------------------------------------------------------------------
(* C17 *)

\* the step() that follows a successful reset() taken while micro-ops or
\* idle ticks of the interrupted instruction were pending
C17_Case ==
    /\ ResetOk
    /\ Cursor # <<>> \/ Penalty > 0
    /\ last'.call = "step"

\* C17: reset() clears any pending micro-op state: if reset() succeeds while
\* an instruction is partly executed or a penalty tick is pending, the next
\* step() is an opcode fetch at the reset-vector address, with no leftover
\* micro-op and no leftover idle tick executed first.
C17_ResetClearsPending ==
    [][C17_Case =>
          /\ last'.branch = "fetch"
          /\ cpu'.registers.program_counter \in {PC, U16(PC + 1)}]_vars

----------------------------------------------------------------------------
(* C18 *)

\* C18: reset() is idempotent: with an unchanged bus, calling reset() twice in
\* a row leaves the same observable state (registers, flags, PC, cycle
\* counter, current instruction) as calling it once.
C18_ResetIdempotent ==
    [][(ResetOk /\ last'.call = "reset") =>
          /\ last'.result = "Ok"
          /\ cpu'.registers = cpu.registers
          /\ cpu'.flags = cpu.flags
          /\ cpu'.cycles = cpu.cycles
          /\ cpu'.current_instruction = cpu.current_instruction
          /\ cpu'.bus.memory = cpu.bus.memory]_vars

\* a second reset() right after a first one that interrupted an instruction
\* which had already written the stack
C18_Witness ==
    /\ ResetOk /\ last.after = "reset"
    /\ probe.resets = 2
    /\ probe.calls >= 3
    /\ Cursor # <<>>
    /\ CellNow(509) = 128

----------------------------------------------------------------------------
(* C19, C20: the conversions of flags.rs, under FlagsSpec *)

\* bit 5 of the byte the run began with
Bit5Set == (probe.byte0 \div 32) % 2 = 1

\* C19: flags byte round trip: for every byte b with bit 5 set,
\* Flags::try_from(b) succeeds and converting the result back to a byte gives
\* b; for every byte with bit 5 clear (exactly 128 values) Flags::try_from
\* fails.
C19_ByteRoundTrip ==
    /\ probe.trace = <<"try_from">> =>
          /\ last.result = "Ok" <=> Bit5Set
          /\ Cardinality({b \in 0..255 : ~FlagsTryFromOk(b)}) = 128
    /\ (probe.trace = <<"try_from", "into">> /\ Bit5Set) =>
          probe.byte = probe.byte0

\* 0xE5 parsed and packed again
C19_Witness ==
    /\ probe.trace = <<"try_from", "into">>
    /\ probe.byte0 = 229 /\ probe.byte = 229
    /\ cpu.flags.negative /\ cpu.flags.overflow /\ ~cpu.flags.break_command

\* a Flags value has been packed and the byte parsed back
C20_Case == probe.trace = <<"into", "try_from">>

\* C20 as stated: for all Flags values f (all eight fields ranging freely),
\* unpack(pack(f)) = f: packing f and parsing the byte back succeeds and
\* returns a value equal to f in every field, the unused field included.
C20_FlagsRoundTrip ==
    C20_Case => (last.result = "Ok" /\ cpu.flags = probe.flags0)

\* C20 as the code has it: packing any f and parsing the byte back succeeds
\* and returns f with the unused field set, so the result is f exactly when
\* f.unused is true.
C20_FlagsRoundTripUnusedSet ==
    C20_Case =>
        /\ last.result = "Ok"
        /\ cpu.flags = [probe.flags0 EXCEPT !.unused = TRUE]
        /\ cpu.flags = probe.flags0 <=> probe.flags0.unused

\* a value with unused = false: the byte has bit 5 set all the same and the
\* value parsed back differs in that field only
C20_Witness ==
    /\ C20_Case
    /\ ~probe.flags0.unused /\ cpu.flags.unused
    /\ probe.flags0.carry /\ probe.flags0.break_command
    /\ probe.byte = 49

----------------------------------------------------------------------------
(* C21 *)

\* C21: PHP writes to the stack the packed flags byte with the Break bit
\* (bit 4) set, for every value of the flags register.
C21_PhpSetsBreak ==
    (InstructionDone /\ Cur.instruction = "PHP") =>
        CellNow(StackCellBelow(0))
            = FlagsIntoU8([probe.at.flags EXCEPT !.break_command = TRUE])

----------------------------------------------------------------------------
(* C22 *)

\* the last step() of a PLP that has run undisturbed so far
C22_Case ==
    /\ Running /\ Cur.instruction = "PLP"
    /\ Len(Cursor) = 1
    /\ last'.call = "step"

\* C22: PLP validates bit 5 of the pulled byte: if the byte read from the
\* stack has bit 5 clear, step() returns an error and the flags register
\* keeps its previous value; if bit 5 is set, the flags register becomes the
\* decoding of that byte.
C22_PlpValidates ==
    [][C22_Case =>
          LET pulled == CellAtStart(StackCellAbove(1))
          IN IF (pulled \div 32) % 2 = 1
             THEN /\ last'.result = "Ok"
                  /\ cpu'.flags = FlagsTryFrom(pulled)
             ELSE /\ last'.result \notin {"Ok"}
                  /\ cpu'.flags = probe.at.flags]_vars

\* PLP with flags 0xE3 pulling 0x02 at 0x0101: an error, the flags kept
C22_Witness ==
    /\ last.call = "step" /\ last.result = "Other"
    /\ last.uop = "plp_flags_from_temp_data"
    /\ probe.resets = 0
    /\ probe.at.registers.stack_pointer = 0
    /\ cpu.registers.stack_pointer = 1
    /\ cpu.temp_data = 2
    /\ cpu.flags = probe.at.flags /\ cpu.flags.negative

----------------------------------------------------------------------------
(* C23 *)

\* the registers, the stack pointer among them, by the letter of the mnemonic
RegisterOf(registers, letter) ==
    CASE letter = "A" -> registers.accumulator
      [] letter = "X" -> registers.x
      [] letter = "Y" -> registers.y
      [] letter = "S" -> registers.stack_pointer

\* source and destination of each transfer
TransferOf(instruction) ==
    CASE instruction = "TAX" -> <<"A", "X">>
      [] instruction = "TAY" -> <<"A", "Y">>
      [] instruction = "TSX" -> <<"S", "X">>
      [] instruction = "TXA" -> <<"X", "A">>
      [] instruction = "TYA" -> <<"Y", "A">>
      [] instruction = "TXS" -> <<"X", "S">>

\* a transfer has completed: the destination holds the source, every other
\* register is as it was
C23_Copied ==
    LET t == TransferOf(Cur.instruction)
        v == RegisterOf(probe.at.registers, t[1])
    IN \A r \in {"A", "X", "Y", "S"} :
          RegisterOf(cpu.registers, r)
              = IF r = t[2] THEN v ELSE RegisterOf(probe.at.registers, r)

\* C23: TAX, TAY, TSX, TXA and TYA copy the source register to the
\* destination and set Zero/Negative from the copied value; TXS copies X to S
\* and leaves every flag, Zero and Negative included, unchanged.
C23_Transfers ==
    (InstructionDone
     /\ Cur.instruction \in {"TAX", "TAY", "TSX", "TXA", "TYA", "TXS"}) =>
        LET v == RegisterOf(probe.at.registers, TransferOf(Cur.instruction)[1])
        IN /\ C23_Copied
           /\ cpu.flags =
                IF Cur.instruction = "TXS" THEN probe.at.flags
                ELSE [probe.at.flags EXCEPT !.zero = (v = 0),
                                            !.negative = (v >= 128)]

----------------------------------------------------------------------------
(* C24 *)

\* the addresses the latest step() put on the bus
AddressesOnBus == {cpu.bus.ops[i][2] : i \in 1..Len(cpu.bus.ops)}

\* C24: for every ZeroPage,X and ZeroPage,Y instruction, for all operand
\* bytes zp and all index values, the effective address accessed on the bus
\* is (zp + index) mod 256, always within 0x0000..0x00FF.
C24_ZeroPageIndexedWraps ==
    (Running /\ Cur.mode \in {"ZeroPageX", "ZeroPageY"} /\ probe.ticks >= 3) =>
        AddressesOnBus \subseteq {(Operand1 + IndexOf(Cur.mode)) % 256}

----------------------------------------------------------------------------
(* C25 *)

\* the two page-0 cells the pointer of an (Indirect,X) instruction lies in
PointerLowAt == (Operand1 + probe.at.registers.x) % 256

PointerHighAt == (Operand1 + probe.at.registers.x + 1) % 256

\* C25: for every (Indirect,X) instruction, for all zp and X, the pointer low
\* byte is read from (zp + X) mod 256 and the pointer high byte from
\* (zp + X + 1) mod 256, both inside page 0; the data access then uses the
\* 16-bit address formed from those two bytes.
C25_IndirectXPointer ==
    (Running /\ Cur.mode = "IndirectX") =>
        /\ probe.ticks = 4 => AddressesOnBus = {PointerLowAt}
        /\ probe.ticks = 5 => AddressesOnBus = {PointerHighAt}
        /\ probe.ticks = 6 =>
              AddressesOnBus = {CellAtStart(PointerLowAt)
                                + 256 * CellAtStart(PointerHighAt)}
        /\ probe.ticks <= 6

----------------------------------------------------------------------------
(* C26 .. C29: alu::add and alu::sub, under AluSpec *)

\* the operand, the carry-in of the run as a number, the accumulator
Operand == cpu.temp_data

CarryIn == IF probe.carry0 THEN 1 ELSE 0

Accumulator == cpu.registers.accumulator

\* C26: binary add (Decimal clear): for all a, m in 0..255 and carry-in c,
\* alu::add returns (a + m + c) mod 256 and sets Carry = (a + m + c > 255),
\* Overflow = (bit7(a) = bit7(m) and bit7(a) != bit7(result)),
\* Zero = (result = 0), Negative = bit7(result); 0x50 + 0x50 with Carry = 0
\* gives 0xA0 with Carry = 0, Overflow = 1, Negative = 1, Zero = 0.
C26_BinaryAdd ==
    (probe.trace = <<"add">> /\ ~cpu.flags.decimal_mode) =>
        LET wide == probe.a0 + Operand + CarryIn
        IN /\ Accumulator = wide % 256
           /\ cpu.flags.carry = (wide > 255)
           /\ cpu.flags.overflow =
                 (((probe.a0 >= 128) = (Operand >= 128))
                  /\ ((probe.a0 >= 128) # (Accumulator >= 128)))
           /\ cpu.flags.zero = (Accumulator = 0)
           /\ cpu.flags.negative = (Accumulator >= 128)
           /\ (probe.a0 = 80 /\ Operand = 80 /\ CarryIn = 0) =>
                 /\ Accumulator = 160
                 /\ ~cpu.flags.carry /\ cpu.flags.overflow
                 /\ cpu.flags.negative /\ ~cpu.flags.zero

\* 0x50 + 0x50 with Carry clear
C26_Witness ==
    /\ probe.trace = <<"add">> /\ ~cpu.flags.decimal_mode
    /\ probe.a0 = 80 /\ Operand = 80 /\ ~probe.carry0
    /\ Accumulator = 160 /\ cpu.flags.overflow

\* the number a packed-BCD byte stands for, and the byte of a number below 100
Dec(byte) == 10 * (byte \div 16) + (byte % 16)

Bcd(n) == 16 * (n \div 10) + (n % 10)

\* C27: decimal add: for all valid packed-BCD operands a, m and carry-in c,
\* alu::add with Decimal set returns the packed-BCD encoding of
\* (dec(a) + dec(m) + c) mod 100 and sets Carry = (dec(a) + dec(m) + c >= 100);
\* 0x09 + 0x01 with Carry = 0 gives 0x10 with Carry = 0.
C27_DecimalAdd ==
    (probe.trace = <<"add">> /\ cpu.flags.decimal_mode) =>
        LET sum == Dec(probe.a0) + Dec(Operand) + CarryIn
        IN /\ Accumulator = Bcd(sum % 100)
           /\ cpu.flags.carry = (sum >= 100)
           /\ (probe.a0 = 9 /\ Operand = 1 /\ CarryIn = 0) =>
                 (Accumulator = 16 /\ ~cpu.flags.carry)

\* 0x58 + 0x46 with Carry set: 105, that is 0x05 with Carry
C27_Witness ==
    /\ probe.trace = <<"add">> /\ cpu.flags.decimal_mode
    /\ probe.a0 = 88 /\ Operand = 70 /\ probe.carry0
    /\ Accumulator = 5 /\ cpu.flags.carry

\* C28: decimal subtract: for all valid packed-BCD operands a, m and carry-in
\* c (c = 1 meaning no borrow), alu::sub with Decimal set returns the
\* packed-BCD encoding of (dec(a) - dec(m) - (1 - c)) mod 100 and sets
\* Carry = (dec(a) - dec(m) - (1 - c) >= 0).
C28_DecimalSub ==
    (probe.trace = <<"sub">> /\ cpu.flags.decimal_mode) =>
        LET difference == Dec(probe.a0) - Dec(Operand) - (1 - CarryIn)
        IN /\ Accumulator = Bcd((difference + 100) % 100)
           /\ cpu.flags.carry = (difference >= 0)

\* a subtraction and then an addition of the same operand, in binary mode
C29_Case == probe.trace = <<"sub", "add">> /\ ~cpu.flags.decimal_mode

\* C29 as stated: ALU round trip in binary mode: for all a, m in 0..255 and
\* every carry-in c, r = sub(a, m) with Carry = c and then add(r, m) with the
\* Carry left by sub returns a.
C29_RoundTrip == C29_Case => Accumulator = probe.a0

\* C29 as the code has it: sub leaves Carry = (a - m - (1 - c) >= 0) and the
\* addition returns (a - (1 - c) + Carry) mod 256, which is a exactly when
\* the Carry left by sub differs from the carry-in c.
C29_RoundTripUpToCarry ==
    C29_Case =>
        LET carry_left == IF last.carry THEN 1 ELSE 0
        IN /\ last.carry = (probe.a0 - Operand - (1 - CarryIn) >= 0)
           /\ Accumulator = (probe.a0 + 255 + CarryIn + carry_left) % 256
           /\ Accumulator = probe.a0 <=> last.carry # probe.carry0

\* 5 - 3 with Carry set is 2 with Carry set, and 2 + 3 + 1 is 6
C29_Witness ==
    /\ C29_Case
    /\ probe.a0 = 5 /\ Operand = 3 /\ probe.carry0
    /\ last.carry /\ Accumulator = 6

----------------------------------------------------------------------------
(* C30: the bus router, under BusSpec *)

\* the registered ranges that hold an address
Covering(devices, address) ==
    {i \in 1..Len(devices) :
        devices[i].start <= address /\ address <= devices[i].end}

\* the addresses where ranges begin and end: if any address is in two
\* ranges, one of these is
RangeEnds(devices) ==
    UNION {{devices[i].start, devices[i].end} : i \in 1..Len(devices)}

\* the range of the latest register_device call shares an address with a
\* range registered before the call
SharesAnAddress ==
    \E address \in {last.start, last.end} \cup RangeEnds(last.before) :
        /\ last.start <= address /\ address <= last.end
        /\ Covering(last.before, address) # {}

\* C30: after any sequence of register_device calls every u16 address is
\* covered by at most one registered range; register_device returns an error
\* and registers nothing whenever the new range shares an address with a
\* registered one, also when it strictly contains it; reads and writes to an
\* address covered by no device return AddressOutOfRange.
C30_BusRouter ==
    /\ \A address \in RangeEnds(cpu.bus.devices) :
          Cardinality(Covering(cpu.bus.devices, address)) <= 1
    /\ (last.call = "register_device" /\ SharesAnAddress) =>
          (last.result # "Ok" /\ cpu.bus.devices = last.before)
    /\ (last.call \in {"read", "write"}
        /\ Covering(cpu.bus.devices, last.start) = {}) =>
          last.result = "AddressOutOfRange"

----------------------------------------------------------------------------
(* C31 *)

\* what a caller can observe of an engine: everything but the two scratch
\* cells and the log of the bus operations of the call before
Observable(c) ==
    [c EXCEPT !.temp_address = 0, !.temp_data = 0, !.bus.ops = <<>>]

\* the engine made by new() over the bus as it is now, then reset
FreshlyReset == reset(CpuNew([cpu'.bus EXCEPT !.ops = <<>>]))

\* a step() that finds the cursor empty and no penalty pending, and reads at
\* PC a byte that is no opcode of the table
C31_Miss ==
    /\ last'.call = "step" /\ last'.branch = "fetch"
    /\ DeviceFor(cpu.bus, PC) # 0
    /\ MemoryAt(cpu.bus, PC) \notin KnownOpcodes

\* a reset() that follows a step() that returned UnknownInstruction, and
\* reads the reset vector
C31_ResetAfterMiss ==
    /\ last.call = "step" /\ last.result = "UnknownInstruction"
    /\ last'.call = "reset" /\ last'.result = "Ok"

\* C31: a step() with an empty cursor that reads at PC a byte outside the
\* table returns UnknownInstruction and leaves the cursor empty, the penalty
\* 0 and A, X, Y, S and the flags as they were; a reset() after it, and the
\* step() after that, give what they give on a freshly reset engine.
C31_UnknownOpcode ==
    [][/\ C31_Miss =>
             /\ last'.result = "UnknownInstruction"
             /\ cpu'.current_microcode_iter = <<>>
             /\ cpu'.page_boundary_cross_penalty = 0
             /\ cpu'.registers =
                   [cpu.registers EXCEPT !.program_counter = U16(@ + 1)]
             /\ cpu'.flags = cpu.flags
       /\ C31_ResetAfterMiss =>
             /\ last'.result = FreshlyReset.result
             /\ Observable(cpu') = Observable(FreshlyReset.cpu)
             /\ step(cpu').result = step(FreshlyReset.cpu).result
             /\ Observable(step(cpu').cpu)
                   = Observable(step(FreshlyReset.cpu).cpu)]_vars

\* opcode 0x02 at 0x8000: step() fails, reset() puts PC back to 0x8000, and
\* the step() after it fails in the same way with X and the flags of a reset
C31_Witness ==
    /\ last.call = "step" /\ last.after = "reset"
    /\ last.result = "UnknownInstruction"
    /\ probe.calls = 2 /\ probe.resets = 1
    /\ MemoryAt(cpu.bus, 32768) = 2
    /\ PC = 32769 /\ Cursor = <<>> /\ Penalty = 0
    /\ cpu.registers.x = 0 /\ cpu.registers.stack_pointer = 253
    /\ cpu.flags = FlagsDefault

----------------------------------------------------------------------------
(* C32 *)

\* C32: when a micro-op returns an error in the middle of an instruction the
\* cursor still points at that micro-op, and the next step() calls the same
\* micro-op again.
C32_FailureKeepsCursor ==
    [][/\ (last'.call = "step" /\ last'.branch = "micro"
           /\ last'.result # "Ok") =>
             cpu'.current_microcode_iter = cpu.current_microcode_iter
       /\ (last.call = "step" /\ last.branch = "micro"
           /\ last.result # "Ok" /\ last'.call = "step") =>
             (last'.branch = "micro" /\ last'.uop = last.uop)]_vars

----------------------------------------------------------------------------
(* C33 *)

\* the bus operations of the latest call that are reads, or writes
BusOps(kind) == SelectSeq(cpu.bus.ops, LAMBDA op : op[1] = kind)

\* C33: a single step() issues at most one bus read and at most one bus
\* write, never a read and a write of the same location, and an idle
\* penalty tick issues no bus operation.
C33_OneAccessPerStep ==
    last.call = "step" =>
        /\ Len(BusOps("read")) <= 1
        /\ Len(BusOps("write")) <= 1
        /\ \A i, j \in 1..Len(cpu.bus.ops) :
              (cpu.bus.ops[i][1] = "read" /\ cpu.bus.ops[j][1] = "write")
                  => cpu.bus.ops[i][2] # cpu.bus.ops[j][2]
        /\ last.branch = "idle" => cpu.bus.ops = <<>>

\* INC $42 (E6 42 12): the third micro-op writes the old value back to
\* 0x0042 and reads nothing
C33_Witness ==
    /\ Running /\ Cur.instruction = "INC" /\ Cur.mode = "ZeroPage"
    /\ last.uop = "inc_inc_temp_data_no_flags"
    /\ cpu.bus.ops = <<<<"write", 66>>>>
    /\ BusOps("read") = <<>>

----------------------------------------------------------------------------
(* C34 *)

\* the instructions whose micro-ops set PC: jumps, calls, returns, branches
ControlFlow ==
    {"JMP", "JSR", "RTS", "RTI", "BRK",
     "BCC", "BCS", "BEQ", "BMI", "BNE", "BPL", "BVC", "BVS"}

\* bytes of the encoding of an instruction of that addressing mode
EncodedLength(mode) ==
    CASE mode \in {"Implied", "Accumulator"} -> 1
      [] mode \in {"Absolute", "AbsoluteX", "AbsoluteY", "Indirect"} -> 3
      [] OTHER -> 2

\* a micro-op of an instruction outside ControlFlow, undisturbed so far, has
\* read the bus at an address that was not PC
C34_DataRead ==
    /\ Running
    /\ last'.call = "step" /\ last'.branch = "micro"
    /\ Cur.instruction \notin ControlFlow
    /\ \E i \in 1..Len(cpu'.bus.ops) :
          /\ cpu'.bus.ops[i][1] = "read"
          /\ cpu'.bus.ops[i][2] # PC

\* C34: a micro-op that reads the bus at a data or pointer address, not at
\* PC, leaves PC unchanged; every instruction that is no jump, call, return
\* or branch ends with PC at its opcode address plus its encoded length.
C34_PcOnlyByFetch ==
    [][/\ C34_DataRead =>
             cpu'.registers.program_counter = PC
       /\ (InstructionDone /\ Cur.instruction \notin ControlFlow)' =>
             cpu'.registers.program_counter
                 = U16(probe'.at.registers.program_counter
                       + EncodedLength(INSTRUCTION_VARIANTS[
                             cpu'.current_instruction].mode))]_vars

----------------------------------------------------------------------------
(* C35 *)

\* C35: a step() called with a penalty pending takes 1 from the penalty and
\* adds 1 to the cycle counter, returns Ok, issues no bus operation, and
\* leaves A, X, Y, S, PC, the flags, temp_address, temp_data, the current
\* instruction, the cursor and all memory as they were.
C35_IdleTickFrame ==
    [][(Penalty > 0 /\ last'.call = "step") =>
          /\ last'.result = "Ok"
          /\ cpu' = [cpu EXCEPT
                        !.page_boundary_cross_penalty = Penalty - 1,
                        !.cycles = U64WrappingInc(@),
                        !.bus.ops = <<>>]]_vars

\* LDA $12FF,X with X = 1: after the idle tick the penalty is 0 again and
\* the micro-op that reads 0x1300 is still ahead
C35_Witness ==
    /\ Running /\ last.branch = "idle"
    /\ Cur.instruction = "LDA" /\ Cur.mode = "AbsoluteX"
    /\ AbsoluteBase = 4863 /\ probe.at.registers.x = 1
    /\ Penalty = 0 /\ Len(Cursor) = 1
    /\ cpu.temp_address = 4863
    /\ cpu.cycles = U64Of(4)

----------------------------------------------------------------------------
(* C36 *)

\* the micro-ops that push a byte: they write at the stack pointer
PushMicroOps ==
    {"pha_push_accumulator_onto_stack", "php_push_flags_onto_stack",
     "jsr_return_address_high_to_stack", "jsr_return_address_low_to_stack",
     "brk_return_address_high_to_stack", "brk_return_address_low_to_stack",
     "brk_flags_to_stack"}

\* the micro-ops that pull a byte: they read at the stack pointer
PullMicroOps ==
    {"pla_pull_accumulator_from_stack", "common_pop_stack_to_temp_data",
     "rts_stack_data_to_temp_address_low",
     "rts_stack_data_to_temp_address_high",
     "rti_stack_to_flags", "rti_stack_to_return_address_low",
     "rti_stack_to_return_address_high"}

----------------------------------------------------------------------------
(* C37 *)

\* the second engine, which began the instruction with other scratch values
Twin == probe.twin

\* C37: two engines that differ only in temp_address and temp_data when an
\* instruction begins issue the same bus operations at every step() of it
\* and return the same results, and when the instruction is complete they
\* agree on A, X, Y, S, PC, the flags and the memory contents.
C37_ScratchIndependence ==
    /\ Running =>
          /\ probe.twin_result = last.result
          /\ Twin.bus.ops = cpu.bus.ops
    /\ InstructionDone =>
          /\ Twin.registers = cpu.registers
          /\ Twin.flags = cpu.flags
          /\ Twin.bus.memory = cpu.bus.memory
          /\ Twin.current_microcode_iter = <<>>
          /\ Twin.page_boundary_cross_penalty = 0

\* PLP complete on both engines: the pulled byte is in temp_data of both,
\* the flags agree, and temp_address, which PLP never writes, still differs
C37_Witness ==
    /\ InstructionDone /\ Cur.instruction = "PLP"
    /\ probe.at.registers.stack_pointer = 253
    /\ cpu.temp_data = 35 /\ Twin.temp_data = 35
    /\ Twin.flags = cpu.flags /\ cpu.flags = FlagsTryFrom(35)
    /\ Twin.temp_address = 65535 - cpu.temp_address

----------------------------------------------------------------------------
(* C38 *)

\* C38: the pending penalty is 0 or 1 in every state reached from new() or
\* reset() by step() calls: a micro-op that queues a penalty queues exactly
\* 1, on top of none, and the step() after it is the idle tick that takes
\* the penalty back to 0 before any other micro-op runs.
C38_PenaltyAtMostOne ==
    /\ [](Penalty \in {0, 1})
    /\ [][/\ last'.outcome = "PageBoundaryPenalty" =>
                /\ last'.n = 1
                /\ Penalty = 0
                /\ cpu'.page_boundary_cross_penalty = 1
          /\ (Penalty > 0 /\ last'.call = "step") =>
                /\ last'.branch = "idle"
                /\ cpu'.page_boundary_cross_penalty = 0
          /\ last'.outcome # "PageBoundaryPenalty" =>
                cpu'.page_boundary_cross_penalty <= Penalty]_vars

\* BCS +127 at 0x80F0 with Carry set: the branch target 0x8171 is in another
\* page, one penalty is queued, and a reset() finds it still pending
C38_Witness ==
    /\ last.call = "reset" /\ last.after = "step"
    /\ Penalty = 1
    /\ probe.calls = 3 /\ probe.owed = 1
    /\ probe.at.registers.program_counter = 33008
    /\ MemoryAt(cpu.bus, 33008) = 176

----------------------------------------------------------------------------
(* C39 *)

\* step() calls that returned Ok since the opcode fetch, the fetch left out
FurtherCalls == probe.ticks - 1

\* C39: while the steps of an instruction succeed, the calls made since its
\* opcode fetch and the calls still owed (one for each micro-op left on the
\* cursor, one for a pending penalty) never exceed 7: a variant has at most
\* 6 micro-ops and serves at most 1 idle tick, so the cursor is empty and
\* the penalty 0 after at most 7 further calls and an opcode fetch falls in
\* every 8 successful calls.
C39_InstructionCompletes ==
    /\ probe.ticks <= 8
    /\ Running =>
          /\ Len(Cur.microcode_sequence) <= 6
          /\ FurtherCalls + Len(Cursor) + Penalty <= 7
          /\ FurtherCalls <= Len(Cur.microcode_sequence) - Len(Cursor) + 1
          /\ FurtherCalls = 7 => InstructionDone

\* INC $12FF,X with X = 1 is complete 6 calls after its opcode fetch
C39_Witness ==
    /\ InstructionDone
    /\ Cur.instruction = "INC" /\ Cur.mode = "AbsoluteX"
    /\ AbsoluteBase = 4863 /\ probe.at.registers.x = 1
    /\ FurtherCalls = 6
    /\ CellAtStart(4864) = 19 /\ CellNow(4864) = 20
====
